---- MODULE Spec2Model ----
(***************************************************************************)
(* MemeCrawler: the rate-limited request queue of the API client           *)
(* (API.#bucket, #emptyBucket, #addToBucket), the history paginator        *)
(* (Archiver.listChannelMessages, driven by Archiver.archiveChannel) and   *)
(* the chunk aggregator (ChunkHandler).                                    *)
(*                                                                         *)
(* Three specifications share the variables; each leaves the variables of  *)
(* the other components at their constructed values:                       *)
(*   SpecQueue  - enqueue calls, drain loops, transport completions, timers*)
(*   SpecPager  - one pagination of a channel, consumed by archiveChannel  *)
(*   SpecChunk  - push / end on one ChunkHandler                           *)
(***************************************************************************)
EXTENDS Integers, Sequences, FiniteSets, TLC

\* ------------------------------------------------------------------ bounds
\* number of enqueue calls (#addToBucket) in one run of the queue
MaxReq == 3
\* the clock stops advancing at this many ticks
MaxTime == 5
\* channel sizes 0..MaxMsgs are explored by the paginator
MaxMsgs == 201
\* chunk lengths 1..MaxChunkLen are explored by the aggregator
MaxChunkLen == 3
\* at most this many items are pushed to the aggregator in one run
MaxPush == 7
\* push(...items) takes 1..MaxBurst items at once
MaxBurst == 5
\* end() calls in one run of the aggregator
MaxEnds == 2
\* assignments to chunkLength in one run of the aggregator
MaxSets == 2
\* a chunk handed directly to saveFileChunk / saveTextChunk has 0..MaxChunkItems items
MaxChunkItems == 2
\* a message handed to extractMessageFiles has 0..MaxAttach attachments
MaxAttach == 2
\* file items handed to the routing of archiveChannel one by one
MaxRouted == 2
MaxKeys == 2
MaxFetchTicks == 1
MaxElems == 2
\* a short channel has 0..MaxArchMsgs messages, and 0..MaxFileMsgs when each
\* of its messages has an attachment
MaxArchMsgs == 3
MaxFileMsgs == 2

\* the clock advances in steps of this many milliseconds
TickMs == 500

\* ------------------------------------------------------- program constants
\* delay(1000) of #emptyBucket
DelayMs == 1000
\* let limit = 100 of listChannelMessages
Limit == 100
\* for (let tries = 0; tries < 5; tries++) of download
MaxTries == 5
\* let chunklength = options.chunklength ?? 50
DefaultChunkLength == 50
\* if (name.length > 50) of saveFileChunk
NameMax == 50
ApiVersion == 10
\* maxSize: number = Infinity of download; stands for the IEEE infinity, which
\* is larger than every size the model uses and not larger than itself
Infinity == 1000000

VARIABLES
    \* ---- API (request queue)
    bucket,          \* #bucket: the pending EndpointRequests, by request id
    emptyingBucket,  \* #emptyingBucket
    loopPc,          \* position of the #emptyBucket call started by enqueue i
    loopItem,        \* the item that call holds across its await (0: none)
    timerDue,        \* when that call's delay(1000) timer fires
    promise,         \* state of the promise #addToBucket returned for request i
    nEnq,            \* number of #addToBucket calls so far
    now,             \* wall clock, ms
    dispatchLog,     \* history: <<request, time>> of every this.fetch() call
    doneAt,          \* history: when the transport call of request i settled (-1: not yet)
    fetchFailed,     \* history: requests whose transport call rejected
    resolveLog,      \* history: requests in the order their promises resolved
    \* ---- listChannelMessages / archiveChannel
    history,         \* the channel's message ids, newest first
    optBefore,       \* options.before (0: undefined)
    lastMessage,     \* the generator's cursor (0: undefined)
    genPc,           \* position of the generator
    genError,        \* what the generator threw
    messages,        \* the generator's local `messages`
    requests,        \* history: the `before` of every getChannelMessages call
    responses,       \* history: the pages getChannelMessages returned
    pages,           \* history: the pages yielded to the consumer
    archPc,          \* position of archiveChannel
    \* ---- ChunkHandler
    pool,            \* #pool
    chunkLength,     \* #chunkLength
    emitted,         \* history: the chunks handed to emit("chunk", ...)
    pushed,          \* history: every item pushed, in push order
    endCount,        \* history: number of end() calls
    endEmpty,        \* history: some end() found the pool empty
    pushAfterEnd,    \* history: a push followed an end()
    lastEmit,        \* history: number of chunks the last call emitted
    lastOp,          \* history: the last ChunkHandler call ("none", "push", "end", "set")
    setCount,        \* history: number of assignments to chunkLength
    \* ---- download / file system
    downloads,       \* the download() calls made, in call order
    fs,              \* the paths that exist on disk
    \* ---- saveFileChunk / saveTextChunk
    opts,            \* the options of the archive call
    handlers,        \* the chunk listener calls made, in call order
    manifests,       \* history: the manifest files written, in write order
    fs0,             \* history: the paths that existed when the run began
    \* ---- API typed accessors
    apiCall,         \* the accessor call in progress and how it settled
    \* ---- archiveChannel
    archOpts,        \* media / nonmedia / text / chunklength of the archive call
    profile,         \* what the channel's messages carry
    pools,           \* the #pool of the media, nonmedia and text chunkers
    processed,       \* history: the messages the for-loop has gone through
    chunkLog,        \* history: the "chunk" events, in emission order
    routed,          \* history: the file items the routing has gone through
    endLog,          \* history: the chunkers end() was called on, in call order
    \* ---- Archiver constructor / setDestination
    destination,     \* #destination
    plainFiles,      \* the paths of fs that are not directories
    ctor,            \* the constructor call: its argument and how it ended
    \* ---- functions applied to one input
    fnIn,            \* the argument
    fnOut,           \* whether it was applied, and the value returned
    \* ---- ChunkHandler: what the listener holds
    endChunks,       \* history: the chunks end() delivered, as seen on delivery
    listening        \* whether the "chunk" listener is still registered

queueVars == <<bucket, emptyingBucket, loopPc, loopItem, timerDue, promise, nEnq,
               now, dispatchLog, doneAt, fetchFailed, resolveLog>>
pagerVars == <<history, optBefore, lastMessage, genPc, genError, messages,
               requests, responses, pages, archPc>>
chunkVars == <<pool, chunkLength, emitted, pushed, endCount, endEmpty, pushAfterEnd,
               lastEmit>>
opVars == <<lastOp, setCount>>
fileVars == <<downloads, fs>>
saveVars == <<opts, handlers, manifests, fs0>>
apiVars == <<apiCall>>
archVars == <<archOpts, profile, pools, processed, chunkLog, routed, endLog>>
destVars == <<destination, plainFiles, ctor>>
fnVars == <<fnIn, fnOut>>
aliasVars == <<endChunks, listening>>
restVars == <<destVars, fnVars, aliasVars>>
vars == <<queueVars, pagerVars, chunkVars, opVars, fileVars, saveVars, apiVars, archVars,
          restVars>>

Reqs == 1..MaxReq

\* ======================================================================
\* API request queue (src/unnamed/part_000)
\* ======================================================================

\* constructor: #bucket = [], #emptyingBucket = false
QueueInit ==
    /\ bucket = <<>>
    /\ emptyingBucket = FALSE
    /\ loopPc = [i \in Reqs |-> "none"]
    /\ loopItem = [i \in Reqs |-> 0]
    /\ timerDue = [i \in Reqs |-> 0]
    /\ promise = [i \in Reqs |-> "none"]
    /\ nEnq = 0
    /\ now = 0
    /\ dispatchLog = <<>>
    /\ doneAt = [i \in Reqs |-> -1]
    /\ fetchFailed = {}
    /\ resolveLog = <<>>

\* this.#bucket.push({...}) appends at the tail
BucketPushFront(b, r) == <<r>> \o b
BucketPush(b, r) == Append(b, r)

\* if (this.#emptyingBucket) return false;
DrainBusyNever(flag) == FALSE
DrainBusy(flag) == flag

\* delay(1000): the timer fires no earlier than 1000 ms after it is armed
TimerDueNow(t) == t
TimerDue(t) == t + DelayMs

\* #addToBucket: push the request, then call #emptyBucket, which runs
\* synchronously up to its first await: either it returns false at once (a
\* drain is running), or it sets the flag, shifts the head of the bucket and
\* calls this.fetch for it.
Enqueue ==
    /\ nEnq < MaxReq
    /\ LET r == nEnq + 1
           b == BucketPush(bucket, r)
       IN /\ nEnq' = r
          /\ promise' = [promise EXCEPT ![r] = "pending"]
          /\ IF DrainBusy(emptyingBucket)
             THEN /\ bucket' = b
                  /\ loopPc' = [loopPc EXCEPT ![r] = "noop"]
                  /\ UNCHANGED <<emptyingBucket, loopItem, dispatchLog>>
             ELSE /\ emptyingBucket' = TRUE
                  /\ bucket' = Tail(b)
                  /\ loopItem' = [loopItem EXCEPT ![r] = Head(b)]
                  /\ loopPc' = [loopPc EXCEPT ![r] = "fetching"]
                  /\ dispatchLog' = Append(dispatchLog, <<Head(b), now>>)
    /\ UNCHANGED <<timerDue, now, doneAt, fetchFailed, resolveLog>>

\* the transport call of loop i resolves: resolve(response); await delay(1000)
FetchOk(i) ==
    /\ loopPc[i] = "fetching"
    /\ promise' = [promise EXCEPT ![loopItem[i]] = "resolved"]
    /\ resolveLog' = Append(resolveLog, loopItem[i])
    /\ doneAt' = [doneAt EXCEPT ![loopItem[i]] = now]
    /\ timerDue' = [timerDue EXCEPT ![i] = TimerDue(now)]
    /\ loopPc' = [loopPc EXCEPT ![i] = "delaying"]
    /\ loopItem' = [loopItem EXCEPT ![i] = 0]
    /\ UNCHANGED <<bucket, emptyingBucket, nEnq, now, dispatchLog, fetchFailed>>

\* the transport call of loop i rejects: the await throws out of #emptyBucket,
\* whose own promise nobody handles; reject is never called and the flag is
\* never reset.
FetchFail(i) ==
    /\ loopPc[i] = "fetching"
    /\ fetchFailed' = fetchFailed \cup {loopItem[i]}
    /\ doneAt' = [doneAt EXCEPT ![loopItem[i]] = now]
    /\ loopPc' = [loopPc EXCEPT ![i] = "dead"]
    /\ UNCHANGED <<bucket, emptyingBucket, loopItem, timerDue, promise, nEnq, now,
                   dispatchLog, resolveLog>>

\* if (this.#bucket.length === 0) break; and the test of the while loop
LoopExitsAlways(b) == TRUE
LoopExits(b) == Len(b) = 0

\* the delay timer of loop i fires: break and clear the flag when the bucket
\* is empty, else shift the next item and fetch it.
TimerFire(i) ==
    /\ loopPc[i] = "delaying"
    /\ now >= timerDue[i]
    /\ IF LoopExits(bucket)
       THEN /\ emptyingBucket' = FALSE
            /\ loopPc' = [loopPc EXCEPT ![i] = "done"]
            /\ UNCHANGED <<bucket, loopItem, dispatchLog>>
       ELSE /\ bucket' = Tail(bucket)
            /\ loopItem' = [loopItem EXCEPT ![i] = Head(bucket)]
            /\ loopPc' = [loopPc EXCEPT ![i] = "fetching"]
            /\ dispatchLog' = Append(dispatchLog, <<Head(bucket), now>>)
            /\ UNCHANGED emptyingBucket
    /\ UNCHANGED <<timerDue, promise, nEnq, now, doneAt, fetchFailed, resolveLog>>

\* time passes
Tick ==
    /\ now + TickMs <= MaxTime * TickMs
    /\ now' = now + TickMs
    /\ UNCHANGED <<bucket, emptyingBucket, loopPc, loopItem, timerDue, promise, nEnq,
                   dispatchLog, doneAt, fetchFailed, resolveLog>>

\* time passes while a delay timer is armed and not yet due, or while the
\* transport call dispatched last has had less than MaxFetchTicks ticks
TimerTick ==
    /\ \E i \in Reqs :
          \/ loopPc[i] = "delaying" /\ now < timerDue[i]
          \/ /\ loopPc[i] = "fetching"
             /\ now < dispatchLog[Len(dispatchLog)][2] + MaxFetchTicks * TickMs
    /\ now' = now + TickMs
    /\ UNCHANGED <<bucket, emptyingBucket, loopPc, loopItem, timerDue, promise, nEnq,
                   dispatchLog, doneAt, fetchFailed, resolveLog>>

\* ======================================================================
\* History paginator (src/src/archiver.ts, listChannelMessages) and the
\* loop of archiveChannel that consumes it
\* ======================================================================

Min(a, b) == IF a < b THEN a ELSE b

\* a channel of n messages, newest first; ids grow with creation time
Channel(n) == [i \in 1..n |-> n + 1 - i]

\* the messages older than cursor b (0: no cursor), newest first
OlderThan(h, b) == IF b = 0 THEN h ELSE SelectSeq(h, LAMBDA m : m < b)

\* GET /channels/{id}/messages?limit=100&before=b
GetChannelMessages(h, b) ==
    LET older == OlderThan(h, b) IN SubSeq(older, 1, Min(Limit, Len(older)))

\* if (messages.length < limit) break;
ExhaustedNever(msgs) == FALSE
Exhausted(msgs) == Len(msgs) < Limit

PagerInit ==
    /\ \E n \in 0..MaxMsgs :
         /\ history = Channel(n)
         /\ optBefore \in {0, n}
    /\ lastMessage = 0
    /\ genPc = "start"
    /\ genError = "none"
    /\ messages = <<>>
    /\ requests = <<>>
    /\ responses = <<>>
    /\ pages = <<>>
    /\ archPc = "loop"

\* archiveChannel's first iterator.next(): the generator body starts, sets
\* lastMessage = options.before and awaits the first getChannelMessages
GenStart ==
    /\ archPc = "loop"
    /\ genPc = "start"
    /\ lastMessage' = optBefore
    /\ requests' = Append(requests, optBefore)
    /\ genPc' = "awaiting"
    /\ archPc' = "awaitNext"
    /\ UNCHANGED <<history, optBefore, genError, messages, responses, pages>>

\* getChannelMessages resolves: the generator yields the page, next() resolves
\* with it and archiveChannel runs its for-loop over the page's messages
PageResponse ==
    /\ genPc = "awaiting"
    /\ LET page == GetChannelMessages(history, lastMessage)
       IN /\ messages' = page
          /\ responses' = Append(responses, page)
          /\ pages' = Append(pages, page)
    /\ genPc' = "yielded"
    /\ archPc' = "loop"
    /\ UNCHANGED <<history, optBefore, lastMessage, genError, requests>>

\* a rejected await, with no try around it in the generator or around
\* iterator.next() in archiveChannel: the generator throws and archiveChannel
\* rejects with the same error
RejectSwallowed(err) == [gen |-> "awaiting", arch |-> "awaitNext", error |-> err]
RejectPropagates(err) == [gen |-> "threw", arch |-> "rejected", error |-> err]

\* getChannelMessages rejects: the generator throws, next() rejects and so
\* does archiveChannel
PageFail ==
    /\ genPc = "awaiting"
    /\ LET r == RejectPropagates("fetch")
       IN /\ genPc' = r.gen
          /\ genError' = r.error
          /\ archPc' = r.arch
    /\ UNCHANGED <<history, optBefore, lastMessage, messages, requests, responses, pages>>

\* lastMessage = messages[messages.length - 1].id
NextCursorFirst(msgs) == msgs[1]
NextCursor(msgs) == msgs[Len(msgs)]

\* a later iterator.next(): the generator resumes after its yield.
\* messages[messages.length - 1].id throws a TypeError on an empty page;
\* otherwise the cursor moves, and the generator either returns (done: true,
\* archiveChannel leaves its loop and calls end() on its chunkers) or awaits
\* the next page.
GenResume ==
    /\ archPc = "loop"
    /\ genPc = "yielded"
    /\ IF Len(messages) = 0
       THEN /\ genPc' = "threw"
            /\ genError' = "TypeError"
            /\ archPc' = "rejected"
            /\ UNCHANGED <<lastMessage, requests>>
       ELSE /\ lastMessage' = NextCursor(messages)
            /\ IF Exhausted(messages)
               THEN /\ genPc' = "done"
                    /\ archPc' = "done"
                    /\ UNCHANGED requests
               ELSE /\ genPc' = "awaiting"
                    /\ archPc' = "awaitNext"
                    /\ requests' = Append(requests, lastMessage')
            /\ UNCHANGED genError
    /\ UNCHANGED <<history, optBefore, messages, responses, pages>>

\* ======================================================================
\* ChunkHandler (src/unnamed/part_001)
\* ======================================================================

\* Array.prototype.slice(a, b) on 0-based indices, b clamped to the length
Slice(p, a, b) == SubSeq(p, a + 1, Min(b, Len(p)))

\* let maxi = this.#pool.length - (this.#pool.length % this.#chunkLength)
MaxiAll(len, n) == len
Maxi(len, n) == len - (len % n)

\* this.#pool.splice(0, maxi): what stays in the pool
SpliceNothing(p, maxi) == p
Splice(p, maxi) == SubSeq(p, maxi + 1, Len(p))

\* for (let i = 0; i < maxi; i += n) emit("chunk", pool.slice(i, i + n))
RECURSIVE EmitLoop(_, _, _, _)
EmitLoop(p, i, maxi, n) ==
    IF i < maxi THEN <<Slice(p, i, i + n)>> \o EmitLoop(p, i + n, maxi, n) ELSE <<>>

\* checkChunks on pool p with chunk length n: the chunks emitted and the pool left
CheckChunks(p, n) ==
    IF Len(p) < n
    THEN [emit |-> <<>>, pool |-> p]
    ELSE LET maxi == Maxi(Len(p), n)
         IN [emit |-> EmitLoop(p, 0, maxi, n), pool |-> Splice(p, maxi)]

\* the k items of one push call: the code never looks into an item, so each
\* item is named by its position in the push order
NewItems(done, k) == [j \in 1..k |-> done + j]

\* constructor (chunkLength)
ChunkInit ==
    /\ chunkLength \in 1..MaxChunkLen
    /\ pool = <<>>
    /\ emitted = <<>>
    /\ pushed = <<>>
    /\ endCount = 0
    /\ endEmpty = FALSE
    /\ pushAfterEnd = FALSE
    /\ lastEmit = 0

\* push(...items): this.#pool.push(...items); this.checkChunks()
Push ==
    \E k \in 1..MaxBurst :
      /\ Len(pushed) + k <= MaxPush
      /\ LET items == NewItems(Len(pushed), k)
             r == CheckChunks(pool \o items, chunkLength)
         IN /\ pool' = r.pool
            /\ emitted' = emitted \o r.emit
            /\ lastEmit' = Len(r.emit)
            /\ pushed' = pushed \o items
      /\ pushAfterEnd' = (pushAfterEnd \/ endCount > 0)
      /\ UNCHANGED <<chunkLength, endCount, endEmpty>>

\* end(): this.checkChunks(); this.#emitter.emit("chunk", this.#pool)
\* (the pool is emitted whatever its length, and is not cleared)
End ==
    /\ endCount < MaxEnds
    /\ LET r == CheckChunks(pool, chunkLength)
       IN /\ pool' = r.pool
          /\ emitted' = (emitted \o r.emit) \o <<r.pool>>
          /\ endEmpty' = (endEmpty \/ r.pool = <<>>)
          /\ lastEmit' = Len(r.emit) + 1
    /\ endCount' = endCount + 1
    /\ UNCHANGED <<chunkLength, pushed, pushAfterEnd>>

\* what a chunk delivered by end() holds now: end() emits this.#pool itself,
\* not a copy, and #pool is one array for the life of the handler (push,
\* splice and length = 0 change it in place)
ChunkNow(c) == pool

\* end(), with what the listener was handed
EndDelivers ==
    /\ End
    /\ endChunks' = Append(endChunks, [at |-> Len(emitted'), seen |-> pool'])
    /\ UNCHANGED listening

\* destroy(): this.#pool.length = 0, and every "chunk" listener is removed
Destroy ==
    /\ pool' = <<>>
    /\ listening' = FALSE
    /\ UNCHANGED <<chunkLength, emitted, pushed, endCount, endEmpty, pushAfterEnd,
                   lastEmit, endChunks>>

\* ======================================================================
\* File downloader (src/src/archiver.ts, getResponse / download)
\* ======================================================================

\* the content-length values a response may carry, and the ceilings asked for
ContentLengths == {1, 2}
MaxSizes == {1, Infinity}

\* +(response.headers["content-length"] ?? Infinity) > maxSize
ExceedsNever(hasLen, cl, maxSize) == FALSE
ExceedsWhenPresent(hasLen, cl, maxSize) == hasLen /\ cl > maxSize
ExceedsCeiling(hasLen, cl, maxSize) == (IF hasLen THEN cl ELSE Infinity) > maxSize

\* tries < 5
MoreTriesOffByOne(tries) == tries <= MaxTries
MoreTries(tries) == tries < MaxTries

\* download(url, dest, maxSize) up to its first await: tries = 0 and the
\* first getResponse is issued
NewDownload(dest, maxSize) ==
    [dest |-> dest, maxSize |-> maxSize, tries |-> 0, pc |-> "awaiting",
     result |-> "none", attempts |-> <<>>, wrote |-> FALSE]

\* getResponse resolves (status below 400): the size test, then
\* createWriteStream(dest), response.pipe(stream), success = true, break
DlResolve(d, hasLen, cl) ==
    LET att == [outcome |-> "ok", hasLen |-> hasLen, cl |-> cl]
    IN IF ExceedsCeiling(hasLen, cl, d.maxSize)
       THEN [d EXCEPT !.attempts = Append(@, att), !.pc = "done", !.result = "false"]
       ELSE [d EXCEPT !.attempts = Append(@, att), !.pc = "done", !.result = "true",
                      !.wrote = TRUE]

\* getResponse rejects (request error, or status >= 400): the catch sets
\* success = false, tries++ and the loop either fetches again or ends
DlReject(d, why) ==
    LET att == [outcome |-> why, hasLen |-> FALSE, cl |-> 0]
        t == d.tries + 1
    IN IF MoreTries(t)
       THEN [d EXCEPT !.attempts = Append(@, att), !.tries = t]
       ELSE [d EXCEPT !.attempts = Append(@, att), !.tries = t, !.pc = "done",
                      !.result = "false"]

\* a caller invokes download on a destination that does not exist yet
DlCall ==
    /\ downloads = <<>>
    /\ \E m \in MaxSizes : downloads' = <<NewDownload(<<"dest">>, m)>>
    /\ UNCHANGED fs

\* the pending getResponse of download i resolves with a response that has
\* (hasLen) content-length cl
DlOk(i, hasLen, cl) ==
    /\ downloads[i].pc = "awaiting"
    /\ LET d == DlResolve(downloads[i], hasLen, cl)
       IN /\ downloads' = [downloads EXCEPT ![i] = d]
          /\ fs' = IF d.wrote THEN fs \cup {d.dest} ELSE fs

\* the pending getResponse of download i rejects
DlErr(i, why) ==
    /\ downloads[i].pc = "awaiting"
    /\ downloads' = [downloads EXCEPT ![i] = DlReject(downloads[i], why)]
    /\ UNCHANGED fs

\* nothing downloaded, an empty destination
FileInitIdle ==
    /\ downloads = <<>>
    /\ fs = {}

\* ======================================================================
\* Archive writer (src/src/archiver.ts, saveFileChunk / saveTextChunk)
\* ======================================================================

\* Paths are relative to <destination>/<guild>/<channel>.
KindDir(kind) == <<kind>>
FileDir(kind) == <<kind, "files">>
EntriesDir(kind) == <<kind, "entries">>
EntryDir(kind, t) == <<kind, "entries", ToString(t)>>
EntryFile(kind, t, id) == <<kind, "entries", ToString(t), ToString(id) \o ".json">>
WritePath(kind, name) == <<kind, "files", name>>
TextFile(id) == <<"text", ToString(id) \o ".json">>

\* a file item: the originating message, the discriminator (0: attachment,
\* 1: link) and the filename with its length, its first 50 characters and its
\* extension
FileItem(msg, type, text, len, first50, ext) ==
    [msg |-> msg, type |-> type, filename |-> text, len |-> len,
     first50 |-> first50, ext |-> ext, url |-> "https://cdn/" \o text]

\* extname(filename) of node:path, for a name without directory separators:
\* from the last "." to the end, or "" when there is no "." or the only one
\* is the first character
DotsOf(name) == {i \in 1..Len(name) : SubSeq(name, i, i) = "."}
ExtName(name) ==
    LET dots == DotsOf(name)
        last == CHOOSE i \in dots : \A j \in dots : j <= i
    IN IF dots = {} \/ dots = {1} THEN "" ELSE SubSeq(name, last, Len(name))

\* if (name.length > 50) name = name.slice(0, 50) + extname(file.filename)
TruncNameNoExt(name) ==
    IF Len(name) > NameMax THEN SubSeq(name, 1, NameMax) ELSE name
TruncName(name) ==
    IF Len(name) > NameMax THEN SubSeq(name, 1, NameMax) \o ExtName(name) ELSE name

\* name = file.msg.id + "." + name
StoredName(file) == ToString(file.msg) \o "." \o TruncName(file.filename)

\* if (options.overwrite || !existsSync(writepath))
NeedsDownloadAlways(overwrite, exists) == TRUE
NeedsDownload(overwrite, exists) == overwrite \/ ~exists

\* if (!success): success is the Promise that the un-awaited download call
\* returned, and a Promise is never falsy
NotSuccess(d) == FALSE

\* a listener call that has not run yet
NewHandler(kind, chunk, started) ==
    [kind |-> kind, chunk |-> chunk, pc |-> "start", tstamp |-> 0, idx |-> 1,
     entries |-> <<>>, checks |-> <<>>, warned |-> 0, err |-> "none",
     write |-> "none", started |-> started]

\* the for-loop over the chunk's files, from file h.idx on, up to the next
\* await: await writeFile of the source side-car, or await writeFile of the
\* manifest after the last file
RECURSIVE FileLoop(_, _, _, _)
FileLoop(h, fsx, dls, o) ==
    IF h.idx > Len(h.chunk)
    THEN [h |-> [h EXCEPT !.pc = "writeManifest"], fs |-> fsx, dls |-> dls]
    ELSE LET file == h.chunk[h.idx]
             name == StoredName(file)
             wp == WritePath(h.kind, name)
             need == NeedsDownload(o.overwrite, wp \in fsx)
             d == NewDownload(wp, o.maxFileSize)
             dls2 == IF need THEN Append(dls, d) ELSE dls
             check == [path |-> wp, existed |-> wp \in fsx, fetched |-> need]
             entry == [filename |-> name, filename_original |-> file.filename,
                       url |-> file.url, msgid |-> file.msg]
         IN IF need /\ NotSuccess(d)
            THEN FileLoop([h EXCEPT !.idx = @ + 1, !.warned = @ + 1,
                                    !.checks = Append(@, check)], fsx, dls2, o)
            ELSE IF need /\ o.saveSources
            THEN [h |-> [h EXCEPT !.pc = "writeSource", !.checks = Append(@, check)],
                  fs |-> fsx, dls |-> dls2]
            ELSE FileLoop([h EXCEPT !.idx = @ + 1, !.entries = Append(@, entry),
                                    !.checks = Append(@, check)], fsx, dls2, o)

\* if (!existsSync(entrydir)) await mkdir(entrydir, { recursive: true })
AfterFiles(h, fsx, dls, o) ==
    IF EntryDir(h.kind, h.tstamp) \notin fsx
    THEN [h |-> [h EXCEPT !.pc = "mkdirEntry"], fs |-> fsx, dls |-> dls]
    ELSE FileLoop(h, fsx, dls, o)

\* entrydir = join(dir, "entries", Date.now().toString());
\* if (!existsSync(filedir)) await mkdir(filedir)
AfterDir(h, fsx, dls, o, t) ==
    LET h1 == [h EXCEPT !.tstamp = t]
    IN IF FileDir(h.kind) \notin fsx
       THEN [h |-> [h1 EXCEPT !.pc = "mkdirFiles"], fs |-> fsx, dls |-> dls]
       ELSE AfterFiles(h1, fsx, dls, o)

\* saveFileChunk(options, chunk, type) up to its first await
SaveFileStart(h, fsx, dls, o, t) ==
    IF Len(h.chunk) = 0
    THEN [h |-> [h EXCEPT !.pc = "returned"], fs |-> fsx, dls |-> dls]
    ELSE IF KindDir(h.kind) \notin fsx
    THEN [h |-> [h EXCEPT !.pc = "mkdirDir"], fs |-> fsx, dls |-> dls]
    ELSE AfterDir(h, fsx, dls, o, t)

\* saveTextChunk(options, chunk): chunk[0].source.id throws a TypeError on an
\* empty chunk; otherwise writeFile is called without await and the function
\* returns
SaveTextStart(h, fsx, dls) ==
    IF Len(h.chunk) = 0
    THEN [h |-> [h EXCEPT !.pc = "rejected", !.err = "TypeError"], fs |-> fsx, dls |-> dls]
    ELSE [h |-> [h EXCEPT !.pc = "returned", !.write = "pending"], fs |-> fsx, dls |-> dls]

\* the listener registered for a kind
StartHandler(h, fsx, dls, o, t) ==
    IF h.kind = "text" THEN SaveTextStart(h, fsx, dls) ELSE SaveFileStart(h, fsx, dls, o, t)

\* the manifest saveFileChunk writes
FileManifest(h, i) ==
    [path |-> EntryFile(h.kind, h.tstamp, h.chunk[1].msg), kind |-> h.kind,
     entries |-> h.entries, total |-> Len(h.entries),
     spans |-> <<h.entries[1].msgid, h.entries[Len(h.entries)].msgid>>, handler |-> i]

\* the manifest saveTextChunk writes (a text item is the id of its message)
TextManifest(h, i) ==
    [path |-> TextFile(h.chunk[1]), kind |-> "text",
     entries |-> h.chunk, total |-> Len(h.chunk),
     spans |-> <<h.chunk[1], h.chunk[Len(h.chunk)]>>, handler |-> i]

\* the awaited mkdir of handler i completes. The recursive ones create the
\* missing ancestors and accept an existing directory; mkdir(filedir) is not
\* recursive and fails with EEXIST when the directory exists by now.
MkdirDone(i) ==
    LET h == handlers[i]
    IN /\ h.pc \in {"mkdirDir", "mkdirFiles", "mkdirEntry"}
       /\ LET r == CASE h.pc = "mkdirDir" ->
                        AfterDir(h, fs \cup {KindDir(h.kind)}, downloads, opts, now)
                     [] h.pc = "mkdirFiles" ->
                        IF FileDir(h.kind) \in fs
                        THEN [h |-> [h EXCEPT !.pc = "rejected", !.err = "EEXIST"],
                              fs |-> fs, dls |-> downloads]
                        ELSE AfterFiles(h, fs \cup {FileDir(h.kind)}, downloads, opts)
                     [] h.pc = "mkdirEntry" ->
                        FileLoop(h, fs \cup {EntriesDir(h.kind), EntryDir(h.kind, h.tstamp)},
                                 downloads, opts)
          IN /\ handlers' = [handlers EXCEPT ![i] = r.h]
             /\ fs' = r.fs
             /\ downloads' = r.dls
       /\ UNCHANGED <<opts, manifests, fs0>>

\* the awaited writeFile(writepath + ".source.json") of handler i completes:
\* the entry is pushed and the loop goes on
SourceWritten(i) ==
    LET h == handlers[i]
        file == h.chunk[h.idx]
        name == StoredName(file)
        entry == [filename |-> name, filename_original |-> file.filename,
                  url |-> file.url, msgid |-> file.msg]
    IN /\ h.pc = "writeSource"
       /\ LET r == FileLoop([h EXCEPT !.idx = @ + 1, !.entries = Append(@, entry)],
                            fs \cup {WritePath(h.kind, name \o ".source.json")},
                            downloads, opts)
          IN /\ handlers' = [handlers EXCEPT ![i] = r.h]
             /\ fs' = r.fs
             /\ downloads' = r.dls
       /\ UNCHANGED <<opts, manifests, fs0>>

\* the awaited writeFile(entryfile) of handler i completes; saveFileChunk
\* returns false
ManifestWritten(i) ==
    LET h == handlers[i]
        m == FileManifest(h, i)
    IN /\ h.pc = "writeManifest"
       /\ manifests' = Append(manifests, m)
       /\ fs' = fs \cup {m.path}
       /\ handlers' = [handlers EXCEPT ![i].pc = "returned", ![i].write = "ok"]
       /\ UNCHANGED <<opts, downloads, fs0>>

\* the un-awaited writeFile of saveTextChunk settles: the file is written
\* when the text directory exists, else the write fails with ENOENT
TextWritten(i) ==
    LET h == handlers[i]
        m == TextManifest(h, i)
    IN /\ h.kind = "text"
       /\ h.write = "pending"
       /\ IF <<"text">> \in fs
          THEN /\ manifests' = Append(manifests, m)
               /\ fs' = fs \cup {m.path}
               /\ handlers' = [handlers EXCEPT ![i].write = "ok"]
          ELSE /\ handlers' = [handlers EXCEPT ![i].write = "failed", ![i].err = "ENOENT"]
               /\ UNCHANGED <<manifests, fs>>
       /\ UNCHANGED <<opts, downloads, fs0>>

\* the file items and chunks handed to the writer directly
SampleFiles ==
    {FileItem(2, 0, "cat.png", 7, "cat.png", ".png"),
     FileItem(1, 1, "dog.mp4", 7, "dog.mp4", ".mp4")}
SampleTexts == {1, 2}
ChunksOf(S) == UNION {[1..k -> S] : k \in 0..MaxChunkItems}

\* what an earlier run over SampleFiles left in the destination
FsAfterRun ==
    UNION {{KindDir(k), FileDir(k), EntriesDir(k)} \cup
           {WritePath(k, StoredName(f)) : f \in SampleFiles} : k \in {"media", "nonmedia"}}
        \cup {<<"text">>}

\* the content-length of the files the writer's downloads are served: over
\* the finite size ceiling of MaxSizes, under the absent one
ServedLength == CHOOSE cl \in ContentLengths : \A c \in ContentLengths : c <= cl

\* the options of an archive call that the writer reads
OptionSets == [overwrite : BOOLEAN, saveSources : BOOLEAN, maxFileSize : MaxSizes]

SaveInit ==
    /\ opts \in OptionSets
    /\ fs \in {{}, FsAfterRun}
    /\ fs0 = fs
    /\ downloads = <<>>
    /\ handlers = <<>>
    /\ manifests = <<>>

\* a "chunk" event reaches the media or nonmedia listener
CallSaveFile ==
    /\ handlers = <<>>
    /\ \E kind \in {"media", "nonmedia"} : \E chunk \in ChunksOf(SampleFiles) :
         LET r == StartHandler(NewHandler(kind, chunk, 0), fs, downloads, opts, now)
         IN /\ handlers' = <<r.h>>
            /\ fs' = r.fs
            /\ downloads' = r.dls
    /\ UNCHANGED <<opts, manifests, fs0>>

\* a "chunk" event reaches the text listener
CallSaveText ==
    /\ handlers = <<>>
    /\ \E chunk \in ChunksOf(SampleTexts) :
         LET r == StartHandler(NewHandler("text", chunk, 0), fs, downloads, opts, now)
         IN /\ handlers' = <<r.h>>
            /\ fs' = r.fs
            /\ downloads' = r.dls
    /\ UNCHANGED <<opts, manifests, fs0>>

\* no archive writer in use
SaveInitIdle ==
    /\ opts = [overwrite |-> FALSE, saveSources |-> FALSE, maxFileSize |-> Infinity]
    /\ handlers = <<>>
    /\ manifests = <<>>
    /\ fs0 = {}

\* ======================================================================
\* Typed accessors (src/unnamed/part_000, API.channel .. searchChannelMessages)
\* ======================================================================

\* this.code = +(response.code ?? 50035)
DefaultCode == 50035

\* A decoded response body: a JSON object or array. fields names the
\* properties an object has with the type the predicates test for; an array
\* has len elements and first is its first element.
Obj(fields, code, message, errors) ==
    [isArray |-> FALSE, len |-> 0, first |-> {}, fields |-> fields,
     code |-> code, message |-> message, errors |-> errors]
Arr(len, first) ==
    [isArray |-> TRUE, len |-> len, first |-> first, fields |-> {},
     code |-> 0, message |-> "", errors |-> "undefined"]

ChannelFields == {"id", "type"}
MessageFields == {"id", "channel_id", "pinned", "attachments", "type"}
GuildFields == {"id", "name", "owner_id", "emojis", "nsfw_level", "stickers"}
SearchFields == {"total_results", "messages", "analytics_id"}

\* the bodies Discord answers with when a request is refused
ErrorBodies ==
    {Obj({"message"} \cup cf \cup ef,
         IF cf = {} THEN 0 ELSE c, m, IF ef = {} THEN "undefined" ELSE "fieldmap") :
        <<cf, c, m, ef>> \in
            ({{}} \X {0} \X {"Unknown Channel", "Missing Access"} \X {{}, {"errors"}})
            \cup ({{"code"}} \X {10003, 50001} \X {"Unknown Channel", "Missing Access"}
                    \X {{}, {"errors"}})}

Bodies ==
    {Obj(f, 0, "", "undefined") : f \in {ChannelFields, MessageFields, GuildFields, SearchFields}}
        \cup ErrorBodies
        \cup {Arr(0, {})}
        \cup {Arr(1, f) : f \in {ChannelFields, MessageFields, GuildFields, {"code", "message"}}}

\* the structural predicates
IsChannel(fields) == ChannelFields \subseteq fields
IsGuild(fields) == GuildFields \subseteq fields
IsMessage(fields) == {"id", "channel_id", "pinned", "attachments"} \subseteq fields
IsChannelSearchResult(fields) == SearchFields \subseteq fields

Accessors == {"channel", "guild", "guildChannels", "getChannelMessages", "searchChannelMessages"}

\* the test each accessor applies to the decoded result
Accepts(accessor, body) ==
    CASE accessor = "channel" -> ~body.isArray /\ IsChannel(body.fields)
      [] accessor = "guild" -> ~body.isArray /\ IsGuild(body.fields)
      [] accessor = "guildChannels" ->
            body.isArray /\ (body.len = 0 \/ IsChannel(body.first))
      [] accessor = "getChannelMessages" ->
            body.isArray /\ (body.len = 0 \/ IsMessage(body.first))
      [] accessor = "searchChannelMessages" ->
            ~body.isArray /\ IsChannelSearchResult(body.fields)

\* response.toString(): Object.prototype.toString of an object,
\* Array.prototype.join of an array of objects
BodyToString(body) ==
    IF body.isArray
    THEN (IF body.len = 0 THEN "" ELSE "[object Object]")
    ELSE "[object Object]"

\* new DiscordError(response)
NewDiscordError(body) ==
    [kind |-> "DiscordError",
     code |-> IF "code" \in body.fields THEN body.code ELSE DefaultCode,
     message |-> BodyToString(body),
     errors |-> body.errors]

\* new Error(message)
NewError(message) == [kind |-> "Error", message |-> message]

\* throw new Error(new DiscordError(result).toString())
Thrown(body) == NewError(NewDiscordError(body).message)

ApiIdle == [accessor |-> "none", pc |-> "idle", body |-> Arr(0, {}), thrown |-> NewError("")]

ApiInitIdle == apiCall = ApiIdle

\* an accessor is called and awaits this.endpoint(...)
ApiCall ==
    /\ apiCall.pc = "idle"
    /\ \E a \in Accessors : apiCall' = [apiCall EXCEPT !.accessor = a, !.pc = "awaiting"]

\* endpoint resolves with a decoded body that satisfies the accessor's test
ApiReturn ==
    /\ apiCall.pc = "awaiting"
    /\ \E body \in Bodies :
         /\ Accepts(apiCall.accessor, body)
         /\ apiCall' = [apiCall EXCEPT !.pc = "returned", !.body = body]

\* endpoint resolves with a decoded body that fails the accessor's test
ApiThrow ==
    /\ apiCall.pc = "awaiting"
    /\ \E body \in Bodies :
         /\ ~Accepts(apiCall.accessor, body)
         /\ apiCall' = [apiCall EXCEPT !.pc = "thrown", !.body = body,
                                       !.thrown = Thrown(body)]

\* ======================================================================
\* Channel archiver (src/src/archiver.ts, archiveChannel)
\* ======================================================================

\* let mediatypes = [...], compared with extname(filename).slice(1)
MediaTypes == {".jpg", ".png", ".jpeg", ".webp", ".gif", ".mov", ".mp4", ".webm",
               ".gifv", ".mp3", ".wav"}
\* toLowerCase(), on the extensions the model uses
LowerCase(ext) ==
    CASE ext = ".MP4" -> ".mp4"
      [] ext = ".PNG" -> ".png"
      [] OTHER -> ext
IsMedia(ext) == LowerCase(ext) \in MediaTypes

\* "width" in attach && "height" in attach
IsMediaAttachmentWidthOnly(attach) == attach.hasWidth
IsMediaAttachment(attach) == attach.hasWidth /\ attach.hasHeight

\* an attachment of a message
Attachment(filename, len, ext, dims, size) ==
    [filename |-> filename, len |-> len, ext |-> ext,
     hasWidth |-> dims, hasHeight |-> dims, size |-> size]

\* msg.content as new URL(msg.content) sees it: parsed is FALSE when the
\* constructor throws; protocol is the scheme followed by ":" as the URL
\* class reports it; basename is urlfilename(contenturl)
Content(parsed, protocol, basename, len, ext) ==
    [parsed |-> parsed, protocol |-> protocol, basename |-> basename,
     len |-> len, ext |-> ext]
PlainText == Content(FALSE, "", "", 0, "")

Profiles == {"example", "attachments", "plain"}

\* message id of a channel of n messages. Ids are ordered as creation times;
\* in the "example" channel the newest message has the attachment cat.png
\* (with width and height), the one before it has the content
\* https://x/y/dog.mp4 and the others are plain text; in an "attachments"
\* channel every message has one attachment, a picture or a document, of
\* size 1 or 2; in an "album" channel every message has two pictures.
MessageOf(prof, n, id) ==
    CASE prof = "example" ->
            [id |-> id,
             content |-> IF id = n - 1
                         THEN Content(TRUE, "https:", "dog.mp4", 7, ".mp4")
                         ELSE PlainText,
             attachments |-> IF id = n
                             THEN <<Attachment("cat.png", 7, ".png", TRUE, 1)>>
                             ELSE <<>>]
      [] prof = "attachments" ->
            [id |-> id, content |-> PlainText,
             attachments |-> <<IF id % 2 = 1
                               THEN Attachment("pic.png", 7, ".png", TRUE, 1 + (id % 3) \div 2)
                               ELSE Attachment("doc.pdf", 7, ".pdf", FALSE, 1 + (id % 3) \div 2)>>]
      [] prof = "plain" ->
            [id |-> id, content |-> PlainText, attachments |-> <<>>]
      [] prof = "album" ->
            [id |-> id, content |-> PlainText,
             attachments |-> <<Attachment("a.png", 5, ".png", TRUE, 1),
                               Attachment("b.png", 5, ".png", TRUE, 1)>>]

\* contenturl !== null && (contenturl.protocol === "http://" ||
\*                         contenturl.protocol === "https://")
IsLink(content) == content.parsed /\ content.protocol \in {"http://", "https://"}

\* extractMessageFiles(msg): the link of the content, then the attachments,
\* each with the source the routing looks at
ExtractMessageFiles(msg) ==
    (IF IsLink(msg.content)
     THEN <<[file |-> FileItem(msg.id, 1, msg.content.basename, msg.content.len,
                               msg.content.basename, msg.content.ext),
             source |-> Attachment(msg.content.basename, msg.content.len,
                                   msg.content.ext, FALSE, 0)]>>
     ELSE <<>>)
    \o [k \in 1..Len(msg.attachments) |->
          [file |-> FileItem(msg.id, 0, msg.attachments[k].filename, msg.attachments[k].len,
                             msg.attachments[k].filename, msg.attachments[k].ext),
           source |-> msg.attachments[k]]]

\* the emitter calls the listener for each chunk in turn; each listener call
\* runs up to its first await
RECURSIVE EmitChunks(_, _, _, _)
EmitChunks(st, kind, chunks, env) ==
    IF chunks = <<>>
    THEN st
    ELSE LET r == StartHandler(NewHandler(kind, Head(chunks), st.processed),
                               env.fs, st.dls, env.o, env.t)
         IN EmitChunks([st EXCEPT !.handlers = Append(@, r.h),
                                  !.dls = r.dls,
                                  !.log = Append(@, [kind |-> kind, chunk |-> Head(chunks),
                                                     at |-> st.processed])],
                       kind, Tail(chunks), env)

PushToFront(st, kind, item, env) ==
    LET r == CheckChunks(<<item>> \o st.pools[kind], env.ao.chunklength)
    IN EmitChunks([st EXCEPT !.pools[kind] = r.pool], kind, r.emit, env)

\* chunkers[kind].push(item)
PushTo(st, kind, item, env) ==
    LET r == CheckChunks(st.pools[kind] \o <<item>>, env.ao.chunklength)
    IN EmitChunks([st EXCEPT !.pools[kind] = r.pool], kind, r.emit, env)

\* chunkers[kind].end()
EndOf(st, kind, env) ==
    LET r == CheckChunks(st.pools[kind], env.ao.chunklength)
    IN EmitChunks([st EXCEPT !.pools[kind] = r.pool, !.ends = Append(@, kind)],
                  kind, r.emit \o <<r.pool>>, env)

\* the body of for (let file of files)
RouteFile(st, x, env) ==
    LET st0 == [st EXCEPT !.routed = Append(@, x)]
    IN IF x.file.type = 0 /\ x.source.size > env.o.maxFileSize
       THEN st0
       ELSE LET ismedia == IF x.file.type = 0 THEN IsMediaAttachment(x.source)
                                              ELSE IsMedia(x.file.ext)
                st1 == IF ismedia /\ env.ao.media
                       THEN PushTo(st0, "media", x.file, env) ELSE st0
            IN IF ~ismedia /\ env.ao.nonmedia
               THEN PushTo(st1, "nonmedia", x.file, env) ELSE st1

RECURSIVE RouteFiles(_, _, _)
RouteFiles(st, files, env) ==
    IF files = <<>> THEN st ELSE RouteFiles(RouteFile(st, Head(files), env), Tail(files), env)

\* the body of for (let msg of messages)
ProcessMessage(st, msg, env) ==
    LET st0 == [st EXCEPT !.processed = @ + 1]
        st1 == IF env.ao.media \/ env.ao.nonmedia
               THEN RouteFiles(st0, ExtractMessageFiles(msg), env)
               ELSE st0
    IN IF env.ao.text THEN PushTo(st1, "text", msg.id, env) ELSE st1

\* for (let msg of messages), over messages lo..hi of the page: the first
\* half in order, then the second half. The test on half always holds (the
\* count only grows); it has the first half evaluated before the second.
RECURSIVE ProcessRange(_, _, _, _, _)
ProcessRange(st, ids, lo, hi, env) ==
    IF lo > hi
    THEN st
    ELSE IF lo = hi
    THEN ProcessMessage(st, MessageOf(env.prof, env.n, ids[lo]), env)
    ELSE LET mid == (lo + hi) \div 2
             half == ProcessRange(st, ids, lo, mid, env)
         IN IF half.processed >= st.processed
            THEN ProcessRange(half, ids, mid + 1, hi, env)
            ELSE half

ProcessMessages(st, ids, env) == ProcessRange(st, ids, 1, Len(ids), env)

\* chunkers.media.end(); chunkers.nonmedia.end(); chunkers.text.end()
EndNone(st, env) == st
EndAll(st, env) == EndOf(EndOf(EndOf(st, "media", env), "nonmedia", env), "text", env)

ArchState ==
    [pools |-> pools, handlers |-> handlers, dls |-> downloads, log |-> chunkLog,
     processed |-> processed, routed |-> routed, ends |-> endLog]
ArchEnv ==
    [ao |-> archOpts, o |-> opts, t |-> now, fs |-> fs, prof |-> profile, n |-> Len(history)]
ArchApply(st) ==
    /\ pools' = st.pools
    /\ handlers' = st.handlers
    /\ downloads' = st.dls
    /\ chunkLog' = st.log
    /\ processed' = st.processed
    /\ routed' = st.routed
    /\ endLog' = st.ends
ArchKeep == UNCHANGED <<pools, handlers, downloads, chunkLog, processed, routed, endLog>>
ArchFrame == UNCHANGED <<archOpts, profile, opts, manifests, fs, fs0>>

EmptyPools == [media |-> <<>>, nonmedia |-> <<>>, text |-> <<>>]

\* archiveChannel is called: nothing requested, emitted or written yet
ArchFresh ==
    /\ optBefore = 0
    /\ lastMessage = 0
    /\ genPc = "start"
    /\ genError = "none"
    /\ messages = <<>>
    /\ requests = <<>>
    /\ responses = <<>>
    /\ pages = <<>>
    /\ archPc = "loop"
    /\ downloads = <<>>
    /\ handlers = <<>>
    /\ manifests = <<>>
    /\ pools = EmptyPools
    /\ processed = 0
    /\ chunkLog = <<>>
    /\ routed = <<>>
    /\ endLog = <<>>

\* the archive calls followed: a short channel of any profile with any choice
\* of kinds and a small chunk length, or a channel of a full page or more of
\* plain messages archived as text with the default chunk length. The file
\* server answers every fetch.
ArchInit ==
    /\ \E n \in (0..MaxArchMsgs) \cup {Limit, Limit + 1} :
         /\ history = Channel(n)
         /\ IF n <= MaxArchMsgs
            THEN /\ profile \in IF n <= MaxFileMsgs THEN Profiles
                                                   ELSE Profiles \ {"attachments"}
                 /\ archOpts \in [media : BOOLEAN, nonmedia : BOOLEAN, text : BOOLEAN,
                                  chunklength : 1..MaxChunkItems]
                 /\ opts \in [overwrite : {FALSE}, saveSources : {FALSE},
                              maxFileSize : MaxSizes]
            ELSE /\ profile = "plain"
                 /\ archOpts = [media |-> FALSE, nonmedia |-> FALSE, text |-> TRUE,
                                chunklength |-> DefaultChunkLength]
                 /\ opts = [overwrite |-> FALSE, saveSources |-> FALSE,
                            maxFileSize |-> Infinity]
    /\ fs \in {{}, {<<"text">>}}
    /\ fs0 = fs
    /\ ArchFresh

\* the archive of a channel of one album as media, into a destination that
\* is empty or already holds the media directories
AlbumInit ==
    /\ history = Channel(1)
    /\ profile = "album"
    /\ archOpts \in [media : {TRUE}, nonmedia : {FALSE}, text : {FALSE},
                     chunklength : 1..MaxChunkItems]
    /\ opts \in [overwrite : {FALSE}, saveSources : {FALSE}, maxFileSize : {Infinity}]
    /\ fs \in {{}, {KindDir("media"), FileDir("media")}}
    /\ fs0 = fs
    /\ ArchFresh

\* the first iterator.next()
ArchGenStart == GenStart /\ ArchKeep /\ ArchFrame

\* next() resolves with a page: the for-loop runs over its messages
ArchPageResponse ==
    /\ PageResponse
    /\ ArchApply(ProcessMessages(ArchState, GetChannelMessages(history, lastMessage), ArchEnv))
    /\ ArchFrame

\* next() rejects: archiveChannel rejects where it awaits
ArchPageFail == PageFail /\ ArchKeep /\ ArchFrame

\* a later iterator.next(); when the generator returns, the loop is left and
\* the three chunkers are ended
ArchGenResume ==
    /\ GenResume
    /\ IF archPc' = "done" THEN ArchApply(EndAll(ArchState, ArchEnv)) ELSE ArchKeep
    /\ ArchFrame

\* the attachments and link contents handed to the routing one by one
SampleAttachments ==
    {[Attachment(f[1], 7, f[2], FALSE, size) EXCEPT !.hasWidth = w, !.hasHeight = h] :
        <<f, w, h, size>> \in
            {<<"pic.png", ".png">>, <<"doc.pdf", ".pdf">>} \X BOOLEAN \X BOOLEAN \X {1, 2}}
SampleLinks ==
    {Content(TRUE, "https:", "dog.mp4", 7, ".mp4"), Content(TRUE, "https:", "DOG.MP4", 7, ".MP4"),
     Content(TRUE, "https:", "doc.pdf", 7, ".pdf"), Content(TRUE, "https:", "page", 4, "")}

\* an archive call in its for-loop, nothing routed yet
RouteInit ==
    /\ archOpts \in [media : BOOLEAN, nonmedia : BOOLEAN, text : {FALSE},
                     chunklength : 1..MaxChunkItems]
    /\ opts \in [overwrite : {FALSE}, saveSources : {FALSE}, maxFileSize : MaxSizes]
    /\ profile = "plain"
    /\ pools = EmptyPools
    /\ processed = 0
    /\ chunkLog = <<>>
    /\ routed = <<>>
    /\ endLog = <<>>
    /\ handlers = <<>>
    /\ manifests = <<>>
    /\ fs0 = {}
    /\ FileInitIdle

\* the loop body runs for an attachment item of the next message
RouteAttachment ==
    /\ Len(routed) < MaxRouted
    /\ \E att \in SampleAttachments :
         ArchApply(RouteFile(ArchState,
                             [file |-> FileItem(Len(routed) + 1, 0, att.filename, att.len,
                                                att.filename, att.ext),
                              source |-> att],
                             ArchEnv))
    /\ ArchFrame

\* the loop body runs for a link-derived item of the next message
RouteLink ==
    /\ Len(routed) < MaxRouted
    /\ \E c \in SampleLinks :
         ArchApply(RouteFile(ArchState,
                             [file |-> FileItem(Len(routed) + 1, 1, c.basename, c.len,
                                                c.basename, c.ext),
                              source |-> Attachment(c.basename, c.len, c.ext, FALSE, 0)],
                             ArchEnv))
    /\ ArchFrame

\* no archive call in progress
ArchInitIdle ==
    /\ archOpts = [media |-> FALSE, nonmedia |-> FALSE, text |-> FALSE,
                   chunklength |-> DefaultChunkLength]
    /\ profile = "plain"
    /\ pools = EmptyPools
    /\ processed = 0
    /\ chunkLog = <<>>
    /\ routed = <<>>
    /\ endLog = <<>>

\* ======================================================================
\* Archiver construction (src/src/archiver.ts, constructor / setDestination)
\* ======================================================================

\* The file system of this part has no symbolic links, so realpathSync
\* returns the resolved path itself. A path is the tuple of its segments
\* below the root; the root always exists.
Parent(path) == SubSeq(path, 1, Len(path) - 1)
Exists(path, fsx) == path = <<>> \/ path \in fsx

DestTree ==
    {<<"home">>, <<"home", "out">>, <<"home", "out", "x">>, <<"home", "notes">>, <<"tmp">>}
DestArgs == DestTree \cup {<<"home", "out", "x", "y">>, <<"mnt", "disk">>}

\* the directory trees: every path has its parent, and the parent is a
\* directory
WellFormed(fsx, plain) ==
    /\ plain \subseteq fsx
    /\ \A q \in fsx : Exists(Parent(q), fsx) /\ Parent(q) \notin plain

CtorIdle == [pc |-> "idle", arg |-> <<>>, error |-> "none"]

\* setDestination(...directory)
SetDestination(path, fsx, plain) ==
    LET missing == ~Exists(path, fsx)
        made == missing /\ Exists(Parent(path), fsx) /\ Parent(path) \notin plain
        fs1 == IF made THEN fsx \cup {path} ELSE fsx
    IN IF missing /\ ~Exists(Parent(path), fsx)
       THEN [error |-> "does not exist", fs |-> fsx, dest |-> <<".">>]
       ELSE IF missing /\ ~made
       THEN [error |-> "ENOTDIR", fs |-> fsx, dest |-> <<".">>]
       ELSE IF path \in plain
       THEN [error |-> "is not a directory", fs |-> fs1, dest |-> <<".">>]
       ELSE [error |-> "none", fs |-> fs1, dest |-> path]

DestInit ==
    /\ fs \in SUBSET DestTree
    /\ plainFiles \in SUBSET fs
    /\ WellFormed(fs, plainFiles)
    /\ fs0 = fs
    /\ destination = <<".">>
    /\ ctor = CtorIdle
    /\ downloads = <<>>
    /\ opts = [overwrite |-> FALSE, saveSources |-> FALSE, maxFileSize |-> Infinity]
    /\ handlers = <<>>
    /\ manifests = <<>>

\* new Archiver({ token, destination }): new API(token), then setDestination
NewArchiver ==
    /\ ctor.pc = "idle"
    /\ \E path \in DestArgs :
         LET r == SetDestination(path, fs, plainFiles)
         IN /\ fs' = r.fs
            /\ destination' = IF r.error = "none" THEN r.dest ELSE destination
            /\ ctor' = [pc |-> IF r.error = "none" THEN "constructed" ELSE "threw",
                        arg |-> path, error |-> r.error]
    /\ UNCHANGED <<plainFiles, downloads, opts, handlers, manifests, fs0>>

\* ======================================================================
\* Functions applied to one input
\* ======================================================================

NotApplied == [done |-> FALSE, value |-> "none"]
Returned(v) == [done |-> TRUE, value |-> v]

\* the contents a message may have: text that new URL rejects, and URLs of
\* several schemes
SampleContents ==
    {PlainText,
     Content(FALSE, "", "see https://x/y/dog.mp4", 23, ".mp4"),
     Content(TRUE, "https:", "dog.mp4", 7, ".mp4"),
     Content(TRUE, "http:", "cat.png", 7, ".png"),
     Content(TRUE, "ftp:", "doc.pdf", 7, ".pdf"),
     Content(TRUE, "mailto:", "", 0, "")}
SampleSources ==
    {Attachment("pic.png", 7, ".png", TRUE, 1), Attachment("doc.pdf", 7, ".pdf", FALSE, 2),
     Attachment("clip.mp4", 8, ".mp4", TRUE, 2)}
SampleMessages ==
    {[id |-> 1, content |-> c, attachments |-> a] :
        <<c, a>> \in SampleContents \X UNION {[1..k -> SampleSources] : k \in 0..MaxAttach}}

\* ---- API.endpoint: the request URL and the options handed to the transport

\* JavaScript values of a query entry, tagged with their type
Num(n) == [t |-> "number", v |-> n]
Str(text) == [t |-> "string", v |-> text]
Bool(b) == [t |-> "boolean", v |-> b]
Null == [t |-> "null", v |-> 0]
Undefined == [t |-> "undefined", v |-> 0]
List(elems) == [t |-> "array", v |-> elems]
\* an object as the sequence of its entries <<key, value>> in for-in order
Dict(entries) == [t |-> "object", v |-> entries]

\* value === undefined || value === null
IsNullish(value) == value.t \in {"undefined", "null"}

\* value.toString() of a number, a string or a boolean
ScalarToString(value) ==
    CASE value.t = "number" -> ToString(value.v)
      [] value.t = "string" -> value.v
      [] value.t = "boolean" -> IF value.v THEN "true" ELSE "false"

\* for (let subval of value) { if nullish continue; s.push(key=subval) }
RECURSIVE PushElements(_, _, _)
PushElements(s, key, elems) ==
    IF elems = <<>> THEN s
    ELSE PushElements(IF IsNullish(Head(elems)) THEN s
                      ELSE Append(s, key \o "=" \o ScalarToString(Head(elems))),
                      key, Tail(elems))

\* for (let key in options.query) { ... }
RECURSIVE PushEntries(_, _)
PushEntries(s, entries) ==
    IF entries = <<>> THEN s
    ELSE LET key == Head(entries)[1]
             value == Head(entries)[2]
             after == IF IsNullish(value) THEN s
                      ELSE IF value.t = "array" THEN PushElements(s, key, value.v)
                      ELSE Append(s, key \o "=" \o ScalarToString(value))
         IN PushEntries(after, Tail(entries))

\* Array.prototype.join
RECURSIVE JoinWith(_, _)
JoinWith(s, sep) ==
    IF s = <<>> THEN ""
    ELSE IF Len(s) = 1 THEN s[1]
    ELSE s[1] \o sep \o JoinWith(Tail(s), sep)

JoinComma(s) == JoinWith(s, ",")
\* s.join("&")
JoinAmp(s) == JoinWith(s, "&")

\* a string query is taken as it is, an object is flattened
QueryString(query) ==
    IF query.t = "string" THEN query.v
    ELSE "?" \o JoinAmp(PushEntries(<<>>, query.v))

\* resolveposix("/", "api", `v${this.apiVersion}`, ...path) of an array path
RECURSIVE Segments(_)
Segments(path) ==
    IF path = <<>> THEN "" ELSE "/" \o Head(path) \o Segments(Tail(path))
UrlPath(path) == "/api/v" \o ToString(ApiVersion) \o Segments(path)

\* endpoint up to the call of the transport: the url and the options.
\* options is [query, fields]: the query value (Undefined when there is
\* none) and the names of its other fields
Endpoint(path, options) ==
    LET base == "https://" \o "discord.com" \o UrlPath(path)
        hasQuery == options.query.t # "undefined"
    IN [url |-> IF hasQuery THEN base \o QueryString(options.query) ELSE base,
        options |-> (options.fields \cup {"headers"})
                        \cup (IF hasQuery THEN {} ELSE options.queryKey)]

\* the scalars and arrays of scalars a query entry holds
SampleScalars == {Num(100), Str("42"), Bool(TRUE), Null, Undefined}
SampleElements == {Num(7), Null}
RECURSIVE SeqsUpTo(_, _)
SeqsUpTo(S, n) ==
    IF n = 0 THEN {<<>>}
    ELSE LET shorter == SeqsUpTo(S, n - 1)
         IN shorter \cup {Append(q, e) : <<q, e>> \in shorter \X S}
SampleValues ==
    SampleScalars \cup {List(elems) : elems \in SeqsUpTo(SampleElements, MaxElems)}
QueryKeys == <<"limit", "before", "after", "ids">>
\* the objects with the first k keys, k <= MaxKeys, in that order
RECURSIVE EntriesOf(_)
EntriesOf(k) ==
    IF k = 0 THEN {<<>>}
    ELSE {Append(q, <<QueryKeys[k], value>>) :
             <<q, value>> \in EntriesOf(k - 1) \X SampleValues}
SampleQueries ==
    {Undefined, Str("?limit=5")} \cup
        {Dict(entries) : entries \in UNION {EntriesOf(k) : k \in 0..MaxKeys}}
SamplePaths == {<<"channels", "1", "messages">>, <<"users", "@me">>}
\* options.query absent, or present with some value (undefined included)
SampleOptions ==
    {[query |-> q, fields |-> f, queryKey |-> k] :
        <<q, f>> \in SampleQueries \X {{}, {"method"}},
        k \in {{}, {"query"}}}

EndpointInit ==
    /\ fnIn \in {<<path, options>> \in SamplePaths \X SampleOptions :
                    options.query.t # "undefined" => options.queryKey = {"query"}}
    /\ fnOut = NotApplied

ApplyEndpoint ==
    /\ ~fnOut.done
    /\ fnOut' = Returned(Endpoint(fnIn[1], fnIn[2]))
    /\ UNCHANGED fnIn

\* filenames around the 50-character limit, built on a stem of 48 characters
Stem48 == "aaaaaaaaaaaaaaaaaaaaaaaaaaaaaaaaaaaaaaaaaaaaaaaa"
SampleNames ==
    {"cat.png", "2.cat.png", ".hidden", "archive.tar.gz",
     Stem48 \o "bc", Stem48 \o "bcd", Stem48 \o ".png", Stem48 \o "bcx.png",
     Stem48 \o "bcy.png", Stem48 \o "bcx.jpeg"}
SampleIds == {1, 2, 12}
SampleNamed ==
    {FileItem(id, 0, name, Len(name), TruncNameNoExt(name), ExtName(name)) :
        <<id, name>> \in SampleIds \X SampleNames}

NameInit ==
    /\ fnIn \in SampleNamed \X SampleNamed
    /\ fnOut = NotApplied

\* the stored names saveFileChunk computes for two file items
ApplyStoredName ==
    /\ ~fnOut.done
    /\ fnOut' = Returned(<<StoredName(fnIn[1]), StoredName(fnIn[2])>>)
    /\ UNCHANGED fnIn

ExtractInit ==
    /\ fnIn \in SampleMessages
    /\ fnOut = NotApplied

\* Archiver.extractMessageFiles(msg)
ApplyExtract ==
    /\ ~fnOut.done
    /\ fnOut' = Returned(ExtractMessageFiles(fnIn))
    /\ UNCHANGED fnIn

\* no constructor call and no function application in progress
DestInitIdle ==
    /\ destination = <<".">>
    /\ plainFiles = {}
    /\ ctor = CtorIdle
FnInitIdle ==
    /\ fnIn = "none"
    /\ fnOut = NotApplied
\* a listener is registered and end() has delivered nothing
AliasInitIdle ==
    /\ endChunks = <<>>
    /\ listening = TRUE
RestInitIdle == DestInitIdle /\ FnInitIdle /\ AliasInitIdle

\* no pagination in progress: an empty channel, nothing requested
PagerInitIdle ==
    /\ history = <<>>
    /\ optBefore = 0
    /\ lastMessage = 0
    /\ genPc = "start"
    /\ genError = "none"
    /\ messages = <<>>
    /\ requests = <<>>
    /\ responses = <<>>
    /\ pages = <<>>
    /\ archPc = "loop"

\* set chunkLength (val): this.#chunkLength = val; this.checkChunks()
SetterNoCheck(p, n) == [emit |-> <<>>, pool |-> p]
SetterCheck(p, n) == CheckChunks(p, n)

SetChunkLength ==
    \E n \in 1..MaxChunkLen :
      /\ chunkLength' = n
      /\ LET r == SetterCheck(pool, n)
         IN /\ pool' = r.pool
            /\ emitted' = emitted \o r.emit
            /\ lastEmit' = Len(r.emit)
      /\ UNCHANGED <<pushed, endCount, endEmpty, pushAfterEnd>>

\* no aggregator in use
ChunkInitIdle ==
    /\ chunkLength = 1
    /\ pool = <<>>
    /\ emitted = <<>>
    /\ pushed = <<>>
    /\ endCount = 0
    /\ endEmpty = FALSE
    /\ pushAfterEnd = FALSE
    /\ lastEmit = 0

\* ======================================================================
\* Specifications
\* ======================================================================

\* a step of one component leaves the other components alone
QueueOnly ==
    UNCHANGED <<pagerVars, chunkVars, opVars, fileVars, saveVars, apiVars, archVars, restVars>>
PagerOnly ==
    UNCHANGED <<queueVars, chunkVars, opVars, fileVars, saveVars, apiVars, archVars, restVars>>
ChunkOnly ==
    UNCHANGED <<queueVars, pagerVars, opVars, fileVars, saveVars, apiVars, archVars, restVars>>
ChunkSetOnly ==
    UNCHANGED <<queueVars, pagerVars, fileVars, saveVars, apiVars, archVars, restVars>>
FileOnly ==
    UNCHANGED <<queueVars, pagerVars, chunkVars, opVars, saveVars, apiVars, archVars, restVars>>
SaveOnly ==
    UNCHANGED <<queueVars, pagerVars, chunkVars, opVars, apiVars, archVars, restVars>>
ApiOnly ==
    UNCHANGED <<queueVars, pagerVars, chunkVars, opVars, fileVars, saveVars, archVars, restVars>>
ArchOnly ==
    UNCHANGED <<queueVars, chunkVars, opVars, apiVars, restVars>>

\* the state of the components a specification does not exercise
OpInit ==
    /\ lastOp = "none" /\ setCount = 0
    /\ FileInitIdle /\ SaveInitIdle /\ ApiInitIdle /\ ArchInitIdle /\ RestInitIdle

InitQueue == QueueInit /\ PagerInitIdle /\ ChunkInitIdle /\ OpInit
NextQueue ==
    \/ Enqueue /\ QueueOnly
    \/ \E i \in Reqs : FetchOk(i) /\ QueueOnly
    \/ \E i \in Reqs : FetchFail(i) /\ QueueOnly
    \/ \E i \in Reqs : TimerFire(i) /\ QueueOnly
    \/ Tick /\ QueueOnly
SpecQueue == InitQueue /\ [][NextQueue]_vars

\* the queue when every transport call returns successfully: the transport
\* answers every call, an armed timer comes due and a due timer fires;
\* nothing obliges the callers to enqueue
NextQueueLive ==
    \/ Enqueue /\ QueueOnly
    \/ \E i \in Reqs : FetchOk(i) /\ QueueOnly
    \/ \E i \in Reqs : TimerFire(i) /\ QueueOnly
    \/ TimerTick /\ QueueOnly
SpecQueueLive ==
    /\ InitQueue
    /\ [][NextQueueLive]_vars
    /\ \A i \in Reqs : WF_vars(FetchOk(i) /\ QueueOnly)
    /\ \A i \in Reqs : WF_vars(TimerFire(i) /\ QueueOnly)
    /\ WF_vars(TimerTick /\ QueueOnly)

InitPager == QueueInit /\ PagerInit /\ ChunkInitIdle /\ OpInit
NextPager ==
    \/ GenStart /\ PagerOnly
    \/ PageResponse /\ PagerOnly
    \/ PageFail /\ PagerOnly
    \/ GenResume /\ PagerOnly
SpecPager == InitPager /\ [][NextPager]_vars

InitChunk == QueueInit /\ PagerInitIdle /\ ChunkInit /\ OpInit
NextChunk ==
    \/ Push /\ ChunkOnly
    \/ End /\ ChunkOnly
SpecChunk == InitChunk /\ [][NextChunk]_vars

\* a ChunkHandler whose chunkLength is also reassigned between calls
NextChunkSet ==
    \/ Push /\ lastOp' = "push" /\ UNCHANGED setCount /\ ChunkSetOnly
    \/ End /\ lastOp' = "end" /\ UNCHANGED setCount /\ ChunkSetOnly
    \/ /\ setCount < MaxSets
       /\ SetChunkLength /\ lastOp' = "set" /\ setCount' = setCount + 1
       /\ ChunkSetOnly
SpecChunkSet == InitChunk /\ [][NextChunkSet]_vars

\* a ChunkHandler whose listener keeps the chunks end() handed to it; the
\* handler is used until it is destroyed
ChunkEndOnly ==
    UNCHANGED <<queueVars, pagerVars, fileVars, saveVars, apiVars, archVars, destVars,
                fnVars>>
NextChunkEnd ==
    \/ /\ listening
       /\ Push /\ lastOp' = "push" /\ UNCHANGED <<setCount, aliasVars>>
       /\ ChunkEndOnly
    \/ /\ listening
       /\ EndDelivers /\ lastOp' = "end" /\ UNCHANGED setCount
       /\ ChunkEndOnly
    \/ /\ listening
       /\ Destroy /\ lastOp' = "destroy" /\ UNCHANGED setCount
       /\ ChunkEndOnly
SpecChunkEnd == InitChunk /\ [][NextChunkEnd]_vars

\* one download call and the settling of its fetch attempts
InitDownload == QueueInit /\ PagerInitIdle /\ ChunkInitIdle /\ OpInit
NextDownload ==
    \/ DlCall /\ FileOnly
    \/ \E i \in DOMAIN downloads : \E hasLen \in BOOLEAN : \E cl \in ContentLengths :
         DlOk(i, hasLen, cl) /\ FileOnly
    \/ \E i \in DOMAIN downloads : \E why \in {"error", "status"} :
         DlErr(i, why) /\ FileOnly
SpecDownload == InitDownload /\ [][NextDownload]_vars

\* one chunk handed to saveFileChunk or saveTextChunk, the file system calls
\* it awaits and the downloads it starts
InitSave ==
    /\ QueueInit /\ PagerInitIdle /\ ChunkInitIdle
    /\ lastOp = "none" /\ setCount = 0
    /\ SaveInit
    /\ ApiInitIdle /\ ArchInitIdle /\ RestInitIdle
NextSave ==
    \/ CallSaveFile /\ SaveOnly
    \/ CallSaveText /\ SaveOnly
    \/ \E i \in DOMAIN handlers : MkdirDone(i) /\ SaveOnly
    \/ \E i \in DOMAIN handlers : SourceWritten(i) /\ SaveOnly
    \/ \E i \in DOMAIN handlers : ManifestWritten(i) /\ SaveOnly
    \/ \E i \in DOMAIN handlers : TextWritten(i) /\ SaveOnly
    \/ \E i \in DOMAIN downloads :
         DlOk(i, TRUE, ServedLength) /\ UNCHANGED saveVars /\ SaveOnly
    \/ \E i \in DOMAIN downloads :
         DlErr(i, "error") /\ UNCHANGED saveVars /\ SaveOnly
SpecSave == InitSave /\ [][NextSave]_vars

\* one call of a typed accessor
InitApi ==
    /\ QueueInit /\ PagerInitIdle /\ ChunkInitIdle
    /\ lastOp = "none" /\ setCount = 0
    /\ FileInitIdle /\ SaveInitIdle
    /\ ApiInitIdle /\ ArchInitIdle /\ RestInitIdle
NextApi ==
    \/ ApiCall /\ ApiOnly
    \/ ApiReturn /\ ApiOnly
    \/ ApiThrow /\ ApiOnly
SpecApi == InitApi /\ [][NextApi]_vars

\* one archiveChannel call: the pages, the pushes, the listener calls they
\* start and the file system calls and downloads those await
HandlerOnly == UNCHANGED <<pagerVars, archVars>> /\ ArchOnly
InitArchive ==
    /\ QueueInit /\ ChunkInitIdle
    /\ lastOp = "none" /\ setCount = 0
    /\ ApiInitIdle /\ RestInitIdle
    /\ ArchInit
NextArchive ==
    \/ ArchGenStart /\ ArchOnly
    \/ ArchPageResponse /\ ArchOnly
    \/ ArchPageFail /\ ArchOnly
    \/ ArchGenResume /\ ArchOnly
    \/ \E i \in DOMAIN handlers : MkdirDone(i) /\ HandlerOnly
    \/ \E i \in DOMAIN handlers : ManifestWritten(i) /\ HandlerOnly
    \/ \E i \in DOMAIN handlers : TextWritten(i) /\ HandlerOnly
    \/ \E i \in DOMAIN downloads :
         DlOk(i, TRUE, ServedLength) /\ UNCHANGED saveVars /\ HandlerOnly
SpecArchive == InitArchive /\ [][NextArchive]_vars

\* the archive of a channel of one album, with the clock running
InitAlbum ==
    /\ QueueInit /\ ChunkInitIdle
    /\ lastOp = "none" /\ setCount = 0
    /\ ApiInitIdle /\ RestInitIdle
    /\ AlbumInit
NextAlbum ==
    \/ ArchGenStart /\ ArchOnly
    \/ ArchPageResponse /\ ArchOnly
    \/ ArchGenResume /\ ArchOnly
    \/ \E i \in DOMAIN handlers : MkdirDone(i) /\ HandlerOnly
    \/ \E i \in DOMAIN handlers : ManifestWritten(i) /\ HandlerOnly
    \/ \E i \in DOMAIN downloads :
         DlOk(i, TRUE, ServedLength) /\ UNCHANGED saveVars /\ HandlerOnly
    \/ Tick /\ QueueOnly
SpecAlbum == InitAlbum /\ [][NextAlbum]_vars

\* the routing of archiveChannel's loop body, one file item at a time
InitRoute ==
    /\ QueueInit /\ PagerInitIdle /\ ChunkInitIdle
    /\ lastOp = "none" /\ setCount = 0
    /\ ApiInitIdle /\ RestInitIdle
    /\ RouteInit
NextRoute ==
    \/ RouteAttachment /\ UNCHANGED pagerVars /\ ArchOnly
    \/ RouteLink /\ UNCHANGED pagerVars /\ ArchOnly
SpecRoute == InitRoute /\ [][NextRoute]_vars

\* one construction of an Archiver over a directory tree
DestOnly ==
    UNCHANGED <<queueVars, pagerVars, chunkVars, opVars, apiVars, archVars, fnVars,
                aliasVars>>
InitDest ==
    /\ QueueInit /\ PagerInitIdle /\ ChunkInitIdle
    /\ lastOp = "none" /\ setCount = 0
    /\ ApiInitIdle /\ ArchInitIdle /\ FnInitIdle /\ AliasInitIdle
    /\ DestInit
NextDest ==
    \/ NewArchiver /\ DestOnly
SpecDest == InitDest /\ [][NextDest]_vars

\* one application of a function to an input
FnOnly ==
    UNCHANGED <<queueVars, pagerVars, chunkVars, opVars, fileVars, saveVars, apiVars,
                archVars, destVars, aliasVars>>
FnIdleRest ==
    /\ QueueInit /\ PagerInitIdle /\ ChunkInitIdle
    /\ lastOp = "none" /\ setCount = 0
    /\ FileInitIdle /\ SaveInitIdle /\ ApiInitIdle /\ ArchInitIdle /\ DestInitIdle
    /\ AliasInitIdle

InitExtract == FnIdleRest /\ ExtractInit
NextExtract ==
    \/ ApplyExtract /\ FnOnly
SpecExtract == InitExtract /\ [][NextExtract]_vars

InitEndpoint == FnIdleRest /\ EndpointInit
NextEndpoint ==
    \/ ApplyEndpoint /\ FnOnly
SpecEndpoint == InitEndpoint /\ [][NextEndpoint]_vars

InitName == FnIdleRest /\ NameInit
NextName ==
    \/ ApplyStoredName /\ FnOnly
SpecName == InitName /\ [][NextName]_vars

\* ======================================================================
\* Properties
\* ======================================================================

\* the loops that are between their flag set and their flag reset and can
\* still take a step
LiveLoops == {i \in Reqs : loopPc[i] \in {"fetching", "delaying"}}
InFlight == {i \in Reqs : loopPc[i] = "fetching"}

\* C1 (as claimed): a request whose transport call failed has its promise
\* rejected, and the queue keeps draining: the draining flag is never left
\* set without a drain loop that can still run.
C1_FailureIsolation ==
    /\ \A r \in fetchFailed : promise[r] = "rejected"
    /\ emptyingBucket => LiveLoops # {}

\* C2: requests are dispatched to the transport in exactly their enqueue
\* order (request ids are enqueue positions), every dispatched request was
\* enqueued, and promises resolve in that same order.
C2_Fifo ==
    /\ \A k \in 1..Len(dispatchLog) : dispatchLog[k][1] = k
    /\ Len(dispatchLog) <= nEnq
    /\ \A k \in 1..Len(resolveLog) :
         \A j \in 1..Len(resolveLog) : j < k => resolveLog[j] < resolveLog[k]

\* all three requests went through the queue, two of them enqueued while a
\* drain was running, and all promises resolved
C2_Witness ==
    /\ Len(resolveLog) = MaxReq
    /\ Cardinality({i \in Reqs : loopPc[i] = "noop"}) >= 2

\* C3: between two successive dispatches the earlier transport call has
\* completed and at least the full inter-request delay has then elapsed.
C3_RateLimit ==
    \A k \in 2..Len(dispatchLog) :
        LET prev == dispatchLog[k - 1][1]
        IN /\ doneAt[prev] >= 0
           /\ dispatchLog[k][2] >= doneAt[prev] + DelayMs

\* the second request was enqueued after the first drain had emptied the
\* backlog and ended, and started a drain of its own
C3_Witness ==
    /\ Len(dispatchLog) >= 2
    /\ loopPc[1] = "done"
    /\ loopPc[2] \in {"fetching", "delaying", "done"}

\* C4: at most one drain loop is active and at most one request is in
\* flight at any time, and an enqueue made while the draining flag is set
\* dispatches nothing.
C4_SingleDrain ==
    /\ [](Cardinality(LiveLoops) <= 1 /\ Cardinality(InFlight) <= 1)
    /\ [][(emptyingBucket /\ nEnq' # nEnq) => dispatchLog' = dispatchLog]_vars

\* an enqueue arrived while a request was in flight and was a no-op start
C4_Witness ==
    /\ \E i \in Reqs : loopPc[i] = "noop"
    /\ Cardinality(InFlight) = 1
    /\ Len(bucket) >= 1

RECURSIVE Concat(_)
Concat(ss) == IF ss = <<>> THEN <<>> ELSE Head(ss) \o Concat(Tail(ss))

CeilDiv(a, b) == (a + b - 1) \div b

\* the history the pagination is asked for
Expected == OlderThan(history, optBefore)

GenStopped == genPc \in {"done", "threw"} /\ genError # "fetch"

\* C5 (as claimed): for a channel of N messages the paginator yields exactly
\* ceil(N/Limit) pages, the last of length N mod Limit (Limit when that is 0),
\* ends normally, and the pages concatenate to the full history.
C5_PageCount ==
    GenStopped =>
        LET N == Len(Expected)
        IN /\ genPc = "done"
           /\ Len(pages) = CeilDiv(N, Limit)
           /\ N > 0 => Len(pages[Len(pages)]) =
                          (IF N % Limit = 0 THEN Limit ELSE N % Limit)
           /\ Concat(pages) = Expected

\* C6 (as claimed): once an empty page has been returned and the consumer has
\* asked for more, the sequence has ended normally and archiveChannel has
\* gone on to flush its aggregators.
C6_EmptyPageEnds ==
    (pages # <<>> /\ pages[Len(pages)] = <<>> /\ genPc # "yielded")
        => (genPc = "done" /\ archPc = "done")

\* C7: every page returned is yielded, a short one included; a page shorter
\* than Limit is the last page yielded and no request follows it; and the
\* paginator stops of its own accord only after yielding a short page.
C7_TerminalPage ==
    /\ pages = responses
    /\ \A k \in 1..Len(pages) : Len(pages[k]) < Limit => Len(requests) = k
    /\ GenStopped => (pages # <<>> /\ Len(pages[Len(pages)]) < Limit)

\* the paginator has returned after full pages followed by a short,
\* non-empty one
C7_Witness ==
    /\ genPc = "done"
    /\ Len(pages) >= 2
    /\ Len(pages[Len(pages)]) \in 1..(Limit - 1)

RECURSIVE SumLen(_)
SumLen(ss) == IF ss = <<>> THEN 0 ELSE Len(Head(ss)) + SumLen(Tail(ss))

OneEnd == endCount = 1 /\ ~pushAfterEnd

\* C8: after pushes followed by one end(), the emitted chunks' lengths sum
\* to the number of items pushed, every chunk but the last has exactly
\* chunkLength items, and the chunks concatenate to the push order.
C8_Conservation ==
    OneEnd =>
        /\ SumLen(emitted) = Len(pushed)
        /\ \A k \in 1..(Len(emitted) - 1) : Len(emitted[k]) = chunkLength
        /\ Concat(emitted) = pushed

\* full chunks were emitted by pushes and end() flushed a partial one
C8_Witness ==
    /\ OneEnd
    /\ Len(emitted) >= 2
    /\ Len(emitted[Len(emitted)]) \in 1..(chunkLength - 1)

\* C9 (as claimed): end() on an empty pool emits nothing, so no chunk handed
\* to the listeners is empty.
C9_NoEmptyChunk ==
    \A k \in 1..Len(emitted) : emitted[k] # <<>>

\* C10: a push emits exactly the complete chunks that the pool together
\* with the new items supports, each of chunkLength items, in pool order and
\* disjoint, and leaves the remainder, shorter than chunkLength, in the pool.
C10_PushEmitsComplete ==
    [][pushed' # pushed =>
        LET all == pool \o SubSeq(pushed', Len(pushed) + 1, Len(pushed'))
            q == Len(all) \div chunkLength
            new == SubSeq(emitted', Len(emitted) + 1, Len(emitted'))
        IN /\ Len(new) = q
           /\ \A j \in 1..Len(new) :
                new[j] = SubSeq(all, (j - 1) * chunkLength + 1, j * chunkLength)
           /\ pool' = SubSeq(all, q * chunkLength + 1, Len(all))
           /\ Len(pool') < chunkLength]_vars

\* one push of several items completed more than one chunk and left a
\* remainder
C10_Witness ==
    /\ endCount = 0
    /\ lastEmit >= 2
    /\ Len(pool) >= 1

\* C20: assigning chunkLength = n re-evaluates at once: floor(len/n) chunks
\* of exactly n items are emitted in pool order and the len mod n remainder
\* stays; with fewer than n items pooled nothing is emitted and the pool is
\* unchanged.
C20_SetChunkLength ==
    [][(lastOp' = "set" /\ pushed' = pushed /\ endCount' = endCount) =>
        LET n == chunkLength'
            q == Len(pool) \div n
            new == SubSeq(emitted', Len(emitted) + 1, Len(emitted'))
        IN /\ Len(new) = q
           /\ \A j \in 1..Len(new) : new[j] = SubSeq(pool, (j - 1) * n + 1, j * n)
           /\ pool' = SubSeq(pool, q * n + 1, Len(pool))
           /\ Len(pool) < n => (emitted' = emitted /\ pool' = pool)]_vars

\* an assignment of a smaller chunkLength emitted several chunks from the
\* pooled items
C20_Witness ==
    /\ lastOp = "set"
    /\ lastEmit >= 2
    /\ endCount = 0

\* getResponse calls made so far by a download
Fetches(d) == Len(d.attempts) + (IF d.pc = "awaiting" THEN 1 ELSE 0)

AttemptFailed(att) == att.outcome # "ok"

\* the response of an attempt is over the ceiling: its content-length is
\* greater than maxSize, or it has none while a finite maxSize was given
OverCeiling(att, maxSize) ==
    IF att.hasLen THEN att.cl > maxSize ELSE maxSize # Infinity

LastAttempt(d) == d.attempts[Len(d.attempts)]

\* C14 (as claimed): at most 5 fetch attempts, another one only after a failed
\* one; download stops at the first successful attempt and returns true, and
\* returns false when all 5 attempts failed.
C14_AsClaimed ==
    \A i \in DOMAIN downloads :
        LET d == downloads[i]
        IN /\ Fetches(d) <= MaxTries
           /\ \A k \in 1..(Fetches(d) - 1) : AttemptFailed(d.attempts[k])
           /\ d.pc = "done" =>
                /\ ~AttemptFailed(LastAttempt(d)) => d.result = "true"
                /\ AttemptFailed(LastAttempt(d)) =>
                     (Len(d.attempts) = MaxTries /\ d.result = "false")

\* C14 (amended): at most 5 fetch attempts, another one only after a failed
\* one; download stops at the first successful attempt and returns true
\* unless that response is over the size ceiling, in which case it returns
\* false; it returns false when all 5 attempts failed.
C14_BoundedRetries ==
    \A i \in DOMAIN downloads :
        LET d == downloads[i]
        IN /\ Fetches(d) <= MaxTries
           /\ \A k \in 1..(Fetches(d) - 1) : AttemptFailed(d.attempts[k])
           /\ d.pc = "done" =>
                /\ (~AttemptFailed(LastAttempt(d)) /\ ~OverCeiling(LastAttempt(d), d.maxSize))
                     => d.result = "true"
                /\ (~AttemptFailed(LastAttempt(d)) /\ OverCeiling(LastAttempt(d), d.maxSize))
                     => d.result = "false"
                /\ AttemptFailed(LastAttempt(d)) =>
                     (Len(d.attempts) = MaxTries /\ d.result = "false")

\* four failed attempts, then the fifth succeeded and download returned true
C14_Witness ==
    \E i \in DOMAIN downloads :
        /\ downloads[i].pc = "done"
        /\ Len(downloads[i].attempts) = MaxTries
        /\ downloads[i].result = "true"

\* C15: an attempt whose response carries a content-length greater than
\* maxSize is the last attempt of the call: download has returned false,
\* fetches nothing more and has not created or written the destination.
C15_SizeCeiling ==
    \A i \in DOMAIN downloads :
        LET d == downloads[i]
        IN \A k \in 1..Len(d.attempts) :
             (d.attempts[k].outcome = "ok" /\ d.attempts[k].hasLen
                 /\ d.attempts[k].cl > d.maxSize)
             => /\ k = Len(d.attempts)
                /\ d.pc = "done"
                /\ d.result = "false"
                /\ ~d.wrote
                /\ d.dest \notin fs

\* a response over the ceiling arrived after earlier attempts had failed
C15_Witness ==
    \E i \in DOMAIN downloads :
        LET d == downloads[i]
        IN /\ Len(d.attempts) >= 2
           /\ LastAttempt(d).outcome = "ok"
           /\ LastAttempt(d).hasLen
           /\ LastAttempt(d).cl > d.maxSize

\* ---- archive writer

\* the downloads that target a path
DownloadsTo(path) == {i \in DOMAIN downloads : downloads[i].dest = path}

\* C11: in saveFileChunk an item whose download failed (retries exhausted or
\* size ceiling hit) is skipped, so no written manifest holds an entry for an
\* item whose download returned false.
C11_FailedItemOmitted ==
    \A k \in DOMAIN manifests :
        LET m == manifests[k]
        IN m.kind \in {"media", "nonmedia"} =>
            \A e \in DOMAIN m.entries :
                \A i \in DownloadsTo(WritePath(m.kind, m.entries[e].filename)) :
                    downloads[i].result # "false"

\* C12: a listener called with an empty chunk returns without an error,
\* writes no manifest and creates nothing.
C12_EmptyChunkNoop ==
    \A i \in DOMAIN handlers :
        Len(handlers[i].chunk) = 0 =>
            /\ handlers[i].pc = "returned"
            /\ handlers[i].err = "none"
            /\ manifests = <<>>
            /\ fs = fs0

\* C16: an item whose destination exists is fetched exactly when overwrite
\* is set; without overwrite no download ever targets a path that existed
\* when the run began, and the item is still recorded in the manifest.
C16_CollisionPolicy ==
    /\ \A i \in DOMAIN handlers : \A c \in DOMAIN handlers[i].checks :
          handlers[i].checks[c].existed =>
              (handlers[i].checks[c].fetched <=> opts.overwrite)
    /\ ~opts.overwrite => \A i \in DOMAIN downloads : downloads[i].dest \notin fs0
    /\ \A k \in DOMAIN manifests :
          LET m == manifests[k]
              h == handlers[m.handler]
          IN m.kind \in {"media", "nonmedia"} =>
              /\ m.total = Len(h.chunk)
              /\ \A c \in DOMAIN h.checks :
                    h.checks[c].existed =>
                        m.entries[c].filename = StoredName(h.chunk[c])

\* a manifest written for a chunk of two items that both existed and were
\* not fetched
C16_Witness ==
    /\ ~opts.overwrite
    /\ downloads = <<>>
    /\ \E k \in DOMAIN manifests :
          LET h == handlers[manifests[k].handler]
          IN /\ manifests[k].total = 2
             /\ Len(h.checks) = 2
             /\ \A c \in DOMAIN h.checks : h.checks[c].existed /\ ~h.checks[c].fetched

\* ---- typed accessors

\* C19: a typed accessor whose decoded response fails its structural predicate
\* fails with a DiscordError that carries the code, the message and the
\* field-level error map of the response body.
C19_DiscordErrorThrown ==
    apiCall.pc = "thrown" =>
        /\ apiCall.thrown.kind = "DiscordError"
        /\ apiCall.thrown.code = NewDiscordError(apiCall.body).code
        /\ apiCall.thrown.message = apiCall.body.message
        /\ apiCall.thrown.errors = apiCall.body.errors

\* ---- channel archiver

\* the non-empty chunks a kind's chunker has emitted, in emission order
ChunksEmitted(kind) ==
    LET sel == SelectSeq(chunkLog, LAMBDA e : e.kind = kind /\ Len(e.chunk) > 0)
    IN [k \in DOMAIN sel |-> sel[k].chunk]

\* every listener call has run to its end and every write has settled
AllHandled ==
    \A i \in DOMAIN handlers :
        /\ handlers[i].pc \in {"returned", "rejected"}
        /\ handlers[i].write # "pending"

\* C13: archiving the three-message example channel (ids 3, 2, 1 for "100",
\* "90", "80") with media and text, chunklength 2, yields one media chunk of
\* the two items cat.png and dog.mp4 with manifest spans <<3, 2>>, one text
\* chunk for 3 and 2 and a final text chunk for 1.
C13_Example ==
    ( /\ profile = "example"
      /\ Len(history) = 3
      /\ archOpts = [media |-> TRUE, nonmedia |-> FALSE, text |-> TRUE, chunklength |-> 2]
      /\ archPc = "done"
      /\ AllHandled )
    => /\ Len(ChunksEmitted("media")) = 1
       /\ [k \in DOMAIN ChunksEmitted("media")[1] |-> ChunksEmitted("media")[1][k].filename]
            = <<"cat.png", "dog.mp4">>
       /\ \E k \in DOMAIN manifests :
            manifests[k].kind = "media" /\ manifests[k].spans = <<3, 2>>
       /\ ChunksEmitted("text") = << <<3, 2>>, <<1>> >>

\* C17: when getChannelMessages rejects for a page, archiveChannel is
\* rejected with that error, and from then on no page is requested and no
\* message is pushed; the messages pushed are those of the pages received.
C17_PageFailureFatal ==
    /\ [](genError = "fetch" => archPc = "rejected")
    /\ [](processed = SumLen(pages))
    /\ [][archPc = "rejected" =>
            /\ archPc' = "rejected"
            /\ requests' = requests
            /\ pages' = pages
            /\ pools' = pools
            /\ processed' = processed
            /\ chunkLog' = chunkLog]_vars

\* the second page fails after the first page of Limit messages was pushed
C17_Witness ==
    /\ archPc = "rejected"
    /\ genError = "fetch"
    /\ Len(requests) = 2
    /\ processed = Limit
    /\ Len(chunkLog) > 0

\* a listener call that has not finished, or whose write has not settled
InProgress(h) == h.pc \notin {"returned", "rejected"} \/ h.write = "pending"

\* C18: within one archiveChannel call at most one chunk handler is in
\* progress, and no message is processed while one is.
C18_SingleFlow ==
    /\ Cardinality({i \in DOMAIN handlers : InProgress(handlers[i])}) <= 1
    /\ \A i \in DOMAIN handlers :
          InProgress(handlers[i]) => handlers[i].started = processed

\* ---- routing

\* the k-th routed item is in the kind's pool or in a chunk the kind's
\* chunker emitted
Reached(kind, k) ==
    \/ \E j \in DOMAIN pools[kind] : pools[kind][j].msg = k
    \/ \E e \in DOMAIN chunkLog :
          /\ chunkLog[e].kind = kind
          /\ \E j \in DOMAIN chunkLog[e].chunk : chunkLog[e].chunk[j].msg = k

\* the classification as the claim states it
ClaimedMedia(x) ==
    IF x.file.type = 0
    THEN x.source.hasWidth /\ x.source.hasHeight
    ELSE LowerCase(x.file.ext) \in MediaTypes

\* an attachment over the size ceiling is not routed at all
Oversize(x) == x.file.type = 0 /\ x.source.size > opts.maxFileSize

\* C21: an attachment is media iff it has width and height, a link item iff
\* its extension is recognized; a media item reaches the media chunker only,
\* and only when media is enabled, a non-media item the nonmedia chunker
\* only, and only when nonmedia is enabled; no item reaches two chunkers.
C21_Routing ==
    \A k \in DOMAIN routed :
        LET x == routed[k]
        IN /\ Reached("media", k) <=>
                (ClaimedMedia(x) /\ archOpts.media /\ ~Oversize(x))
           /\ Reached("nonmedia", k) <=>
                (~ClaimedMedia(x) /\ archOpts.nonmedia /\ ~Oversize(x))
           /\ ~(Reached("media", k) /\ Reached("nonmedia", k))
           /\ ~Reached("text", k)

\* an attachment with a width but no height went to the nonmedia chunker and
\* a link with a recognized extension to the media chunker
C21_Witness ==
    \E j, k \in DOMAIN routed :
        /\ routed[j].file.type = 0
        /\ routed[j].source.hasWidth /\ ~routed[j].source.hasHeight
        /\ Reached("nonmedia", j)
        /\ routed[k].file.type = 1
        /\ Reached("media", k)

\* ---- construction

\* C22: constructing an Archiver over a destination that does not exist, or
\* is not a directory, throws, with no request enqueued and the file system
\* as it was.
C22_DestinationValidated ==
    (ctor.pc # "idle" /\ (ctor.arg \notin fs0 \/ ctor.arg \in plainFiles)) =>
        /\ ctor.pc = "threw"
        /\ fs = fs0
        /\ nEnq = 0

\* ---- paginator cursor

\* C23: the first request carries the caller's before (0: none), every later
\* request the id of the last message of the page just yielded; the cursors
\* strictly decrease and no two requests of a pagination share one.
C23_Cursor ==
    /\ Len(requests) >= 1 => requests[1] = optBefore
    /\ \A k \in 2..Len(requests) :
          /\ requests[k] = pages[k - 1][Len(pages[k - 1])]
          /\ (requests[k - 1] # 0 => requests[k] < requests[k - 1])
    /\ \A j, k \in DOMAIN requests : j # k => requests[j] # requests[k]

\* a pagination of three requests, begun at the caller's cursor
C23_Witness ==
    /\ Len(requests) = 3
    /\ optBefore # 0
    /\ requests[3] < requests[2]

\* ---- flush ordering

ManifestsOf(i) == {k \in DOMAIN manifests : manifests[k].handler = i}

\* the message id of a manifest entry: a file entry's msgid, a text entry's
\* source id
EntryMsg(m, e) == IF m.kind = "text" THEN m.entries[e] ELSE m.entries[e].msgid

\* a listener call with nothing left to do
Settled(h) == h.pc \in {"returned", "rejected"} /\ h.write # "pending"

\* C25: a written manifest has total = number of entries and spans = the
\* message ids of its first and last entry, and exactly one manifest is
\* written for each non-empty chunk.
C25_ManifestConsistent ==
    /\ \A k \in DOMAIN manifests :
          LET m == manifests[k]
          IN /\ m.total = Len(m.entries)
             /\ m.spans = <<EntryMsg(m, 1), EntryMsg(m, Len(m.entries))>>
    /\ \A i \in DOMAIN handlers :
          /\ Cardinality(ManifestsOf(i)) <= 1
          /\ (Settled(handlers[i]) /\ Len(handlers[i].chunk) > 0) =>
                Cardinality(ManifestsOf(i)) = 1

\* C27: archiving into a destination without the channel's subtree, every
\* non-empty text chunk ends up as one manifest text/<firstMsgId>.json that
\* holds the chunk's messages and span.
C27_TextManifestWritten ==
    fs0 = {} =>
        \A i \in DOMAIN handlers :
            LET h == handlers[i]
            IN (h.kind = "text" /\ Len(h.chunk) > 0 /\ Settled(h)) =>
                  /\ TextFile(h.chunk[1]) \in fs
                  /\ \E k \in ManifestsOf(i) :
                        /\ manifests[k].path = TextFile(h.chunk[1])
                        /\ manifests[k].entries = h.chunk
                        /\ manifests[k].spans = <<h.chunk[1], h.chunk[Len(h.chunk)]>>

\* ---- link-derived file items

\* the items of a discriminator among those extracted
ItemsOfType(files, t) == SelectSeq(files, LAMBDA x : x.file.type = t)

\* C26: a message whose content is a bare http or https URL yields exactly
\* one link item, named by the URL's last path segment, besides one item per
\* attachment; any other message yields its attachment items only.
C26_LinkItem ==
    fnOut.done =>
        LET links == ItemsOfType(fnOut.value, 1)
            atts == ItemsOfType(fnOut.value, 0)
            bare == fnIn.content.parsed /\ fnIn.content.protocol \in {"http:", "https:"}
        IN /\ Len(atts) = Len(fnIn.attachments)
           /\ \A k \in DOMAIN atts : atts[k].source = fnIn.attachments[k]
           /\ IF bare
              THEN Len(links) = 1 /\ links[1].file.filename = fnIn.content.basename
              ELSE Len(links) = 0

\* ---- stored filenames

\* the stored name as the claim states it: the message id, a dot, and the
\* original filename, or its first 50 characters and its extension when it
\* has more than 50
ClaimedName(file) ==
    LET f == file.filename
    IN ToString(file.msg) \o "." \o
        (IF Len(f) <= 50 THEN f ELSE SubSeq(f, 1, 50) \o ExtName(f))

\* C28: the stored name is msgId.name with name cut to 50 characters plus
\* the original extension when longer, and items of different messages get
\* different stored names.
C28_StoredName ==
    fnOut.done =>
        /\ \A k \in 1..2 : fnOut.value[k] = ClaimedName(fnIn[k])
        /\ fnIn[1].msg # fnIn[2].msg => fnOut.value[1] # fnOut.value[2]

\* two names of more than 50 characters that are cut to the same name, kept
\* apart by the ids of their messages
C28_Witness ==
    /\ fnOut.done
    /\ fnIn[1].msg # fnIn[2].msg
    /\ fnIn[1].filename # fnIn[2].filename
    /\ Len(fnIn[1].filename) > NameMax
    /\ TruncName(fnIn[1].filename) = TruncName(fnIn[2].filename)
    /\ ExtName(fnIn[1].filename) = ".png"

\* ---- query building

\* the key=value pairs one entry of the query contributes, as the claim
\* states them: none for undefined or null, one per non-null element of an
\* array, one for a scalar
Contribution(entry) ==
    LET key == entry[1]
        value == entry[2]
        kept == SelectSeq(value.v, LAMBDA e : ~IsNullish(e))
    IN IF IsNullish(value) THEN <<>>
       ELSE IF value.t = "array"
            THEN [i \in 1..Len(kept) |-> key \o "=" \o ScalarToString(kept[i])]
       ELSE <<key \o "=" \o ScalarToString(value)>>
RECURSIVE ClaimedPairs(_)
ClaimedPairs(entries) ==
    IF entries = <<>> THEN <<>>
    ELSE Contribution(Head(entries)) \o ClaimedPairs(Tail(entries))

\* C29: for a query object the URL is the endpoint URL, "?" and the claimed
\* key=value pairs joined by "&" in key order, and the options handed to the
\* transport have no query field.
C29_QueryBuilding ==
    (fnOut.done /\ fnIn[2].query.t = "object") =>
        /\ fnOut.value.url =
              "https://discord.com" \o UrlPath(fnIn[1]) \o "?" \o
                  JoinWith(ClaimedPairs(fnIn[2].query.v), "&")
        /\ "query" \notin fnOut.value.options

\* an array with a null element and a scalar, flattened into two pairs
C29_Witness ==
    /\ fnOut.done
    /\ fnIn[2].query.t = "object"
    /\ Len(fnIn[2].query.v) = 2
    /\ fnIn[2].query.v[1][2] = List(<<Null, Num(7)>>)
    /\ fnOut.value.url = "https://discord.com/api/v10/users/@me?limit=7&before=100"

\* ---- queue liveness

Dispatched(r) == \E k \in 1..Len(dispatchLog) : dispatchLog[k][1] = r
DrainStepPending == \E i \in Reqs : loopPc[i] \in {"fetching", "delaying"}

\* C30: with a transport that always returns, every enqueued request is
\* eventually dispatched and its promise resolved, and the draining flag is
\* false whenever the backlog is empty and no drain step is pending.
C30_NoLostWakeup ==
    /\ \A r \in Reqs :
          (promise[r] = "pending") ~> (Dispatched(r) /\ promise[r] = "resolved")
    /\ [](Len(bucket) = 0 /\ ~DrainStepPending => ~emptyingBucket)

\* a request enqueued during a drain and one enqueued after that drain left
\* its loop, all resolved and the flag cleared
C30_Witness ==
    /\ \A r \in Reqs : promise[r] = "resolved"
    /\ ~emptyingBucket
    /\ \E r \in Reqs : loopPc[r] = "noop"
    /\ \E r \in Reqs : r > 1 /\ loopPc[r] = "done"

\* ---- completion of archiveChannel

\* a listener call that has finished its work: it returned, and wrote the
\* manifest of its chunk when the chunk has items
Finished(i) ==
    /\ handlers[i].pc = "returned"
    /\ handlers[i].write # "pending"
    /\ Len(handlers[i].chunk) > 0 => ManifestsOf(i) # {}

\* C31: at the step at which archiveChannel resolves, the listener call of
\* every chunk emitted during the operation, those of end() included, has
\* finished: its downloads are issued and its manifest is written. (Stated
\* for the chunks that have items: the empty chunk end() emits is another
\* matter.)
C31_CompletionPersists ==
    [][(archPc # "done" /\ archPc' = "done") =>
          \A i \in DOMAIN handlers' :
              Len(handlers'[i].chunk) > 0 => Finished(i)']_vars

\* ---- responses without a content-length

\* C36: under a finite maxSize a response without content-length ends the
\* call at that attempt: download returns false and writes nothing; with no
\* maxSize a response is never given up for its size, header or not.
C36_MissingLength ==
    \A i \in DOMAIN downloads :
        LET d == downloads[i]
        IN \A k \in 1..Len(d.attempts) :
             d.attempts[k].outcome = "ok" =>
                /\ k = Len(d.attempts)
                /\ d.pc = "done"
                /\ (~d.attempts[k].hasLen /\ d.maxSize < Infinity) =>
                      (d.result = "false" /\ ~d.wrote /\ d.dest \notin fs)
                /\ d.maxSize = Infinity =>
                      (d.result = "true" /\ d.wrote /\ d.dest \in fs)

\* the first response has no content-length and the call has a ceiling
C36_Witness ==
    \E i \in DOMAIN downloads :
        LET d == downloads[i]
        IN /\ d.maxSize < Infinity
           /\ Len(d.attempts) = 1
           /\ d.attempts[1].outcome = "ok"
           /\ ~d.attempts[1].hasLen
           /\ d.result = "false"

\* ---- concurrent listener calls

\* C32: in a fresh destination no saveFileChunk call fails in its
\* check-then-create steps, whatever other calls run beside it.
C32_NoMkdirRace ==
    fs0 = {} =>
        \A i \in DOMAIN handlers :
            handlers[i].kind # "text" => handlers[i].pc # "rejected"

\* C33: no two chunks that have items are written to the same manifest
\* path.
C33_ManifestPathsUnique ==
    \A j, k \in DOMAIN manifests :
        (j # k /\ manifests[j].handler # manifests[k].handler) =>
            manifests[j].path # manifests[k].path

\* ---- what end() leaves behind

EndStep == endCount' = endCount + 1

\* C34: end() leaves the pool empty; an end() that follows an end() with no
\* push in between delivers no item; a chunk that end() delivered stays as
\* it was delivered, whatever is pushed or destroyed later.
C34_EndConsumes ==
    /\ [][EndStep => pool' = <<>>]_vars
    /\ [][(EndStep /\ lastOp = "end") => emitted'[Len(emitted')] = <<>>]_vars
    /\ [](\A k \in DOMAIN endChunks : ChunkNow(endChunks[k]) = endChunks[k].seen)

\* ---- order of the text chunks

\* the text chunks emitted so far, one after the other
TextEmitted == Concat(ChunksEmitted("text"))

\* C35: with text enabled the text chunks hold one item per message, in
\* page order: inside a chunk the message ids strictly decrease, and the
\* chunks put end to end are the channel's messages from the newest on, each
\* once and none left out, up to the ones still in the pool and all of them
\* once end() has run; without text no text item is emitted.
C35_TextOrder ==
    /\ \A c \in DOMAIN ChunksEmitted("text") :
          LET chunk == ChunksEmitted("text")[c]
          IN \A j, k \in DOMAIN chunk : j < k => chunk[j] > chunk[k]
    /\ archOpts.text =>
          /\ TextEmitted = SubSeq(history, 1, Len(TextEmitted))
          /\ endLog = <<>> => TextEmitted \o pools.text = SubSeq(history, 1, processed)
          /\ endLog # <<>> => TextEmitted = SubSeq(history, 1, processed)
    /\ ~archOpts.text => TextEmitted = <<>>

\* a channel of two pages archived as text in chunks of 50: two full chunks
\* and the remainder end() flushes
C35_Witness ==
    /\ archPc = "done"
    /\ archOpts.text
    /\ Len(history) = Limit + 1
    /\ Len(ChunksEmitted("text")) = 3
    /\ ChunksEmitted("text")[3] = <<1>>

====
